---- MODULE Spec2Model ----
(***************************************************************************)
(* Opportunity search of the orderbook arbitrage bot:                      *)
(*   dryrun             - one gas-estimation trial of an arb() transaction *)
(*   findOpp            - fixed-depth bisection over maximumInput          *)
(*   findOppWithRetries - concurrent findOpp per mode, joined by           *)
(*                        Promise.allSettled                               *)
(* Source: src/src/processes/dryrun.js                                     *)
(***************************************************************************)
EXTENDS Integers, Sequences, FiniteSets

VARIABLES
    vaultBalance,   \* orderPairObject.takeOrders[0].vaultBalance
    config,         \* [hops, retries, gasCoveragePercentage]
    promises,       \* the findOpp invocations, indexed by mode (allPromises)
    settleOrder,    \* modes in the order their findOpp promise settled
    started,        \* modes in the order findOpp was invoked
    pc,             \* position of findOppWithRetries
    result,         \* what findOppWithRetries returned or threw
    dr,             \* one dryrun call, await by await
    pp,             \* one processPair call, await by await
    signer,         \* the signer account: BALANCE and BOUNTY
    fetchedPairPools, \* dataFetcher.fetchedPairPools
    po,             \* one processOrders call, await by await
    call            \* one call of a function: its arguments and what it returned

vars == <<vaultBalance, config, promises, settleOrder, started, pc, result, dr,
          pp, signer, fetchedPairPools, po, call>>

\* what processPair reads and writes
pairVars == <<pp, signer, fetchedPairPools>>

-----------------------------------------------------------------------------
(* Bounds *)

\* single findOpp (retries = 1)
MaxVault == 9
MaxHops == 4
\* concurrent findOpp invocations
MaxRetries == 2
MaxVaultR == 2
MaxHopsR == 2
\* block numbers read during a dryrun
MaxBlock == 2
\* processPair calls in a row
MaxRuns == 2
\* one processPair call
MaxRpcs == 2
MaxOutput == 1
MaxReceiptGas == 2
MaxIncome == 1
MaxBalance == 3
\* one dryrun call
MaxInput == 2
MaxGas == 35
MaxGasPrice == 2
MaxEthPrice == 1
\* one processOrders call: take-orders bundled, largest quoted ratio
MaxOrders == 2
MaxRatio == 2
\* rotateAccounts: accounts in the list, calls in a row
MaxAccounts == 3
MaxRotations == 6
\* quoteOrders: take-orders in the bundled orders it is given
MaxQuoted == 3
\* estimateProfit: the unit of the fixed-point numbers (10^18 in the code),
\* the largest amount, ratio or market price, and eth price in these units,
\* and the largest factor maxInput is multiplied by
One == 2
MaxProfitInput == 3
MaxProfitRatio == 4
MaxProfitPrice == 2
MaxFactor == 3

-----------------------------------------------------------------------------
(* DryrunHaltReason *)

NoOpportunity == 1
NoWalletFund == 2
NoRoute == 3

\* JS undefined in a reason field
Undefined == 0

\* result.data === undefined
NoData ==
    [defined |-> FALSE, maximumInput |-> 0, orders |-> 0, mode |-> 0,
     oppBlockNumber |-> 0]

\* spanAttributes = {} of a findOpp or findOppWithRetries result; the keys
\* these two can set are "hops" and "oppBlockNumber"
NoAttributes == [hopsSet |-> FALSE, hops |-> <<>>, oppBlockNumber |-> 0]

\* what Router.findBestRoute can answer (route.status)
RouteStatuses == {"NoWay", "Success"}

\* what signer.estimateGas can do: resolve, or throw one of these errors
EstimateOutcomes ==
    {"ok", "INSUFFICIENT_FUNDS", "gas required exceeds allowance",
     "insufficient funds for gas", "UNPREDICTABLE_GAS_LIMIT"}

GasCoverages == {"0", "100"}

\* what signer.provider.getBlockNumber can answer
BlockNumbers == 1..MaxBlock

-----------------------------------------------------------------------------
(* dryrun: the liquidity source answers with a route or NoWay, each gas    *)
(* estimation resolves or throws; the result carries what findOpp and      *)
(* findOppWithRetries read: reason, data.maximumInput, the bundled orders  *)

\* the "check for no wallet fund" without the INSUFFICIENT_FUNDS code
isNoWalletFundNoCode(e) ==
    \/ e = "gas required exceeds allowance"
    \/ e = "insufficient funds for gas"

\* the "check for no wallet fund" condition on a gas estimation error
isNoWalletFund(e) ==
    \/ e = "INSUFFICIENT_FUNDS"
    \/ e = "gas required exceeds allowance"
    \/ e = "insufficient funds for gas"

estimateHaltReason(e) ==
    IF isNoWalletFund(e) THEN NoWalletFund ELSE NoOpportunity

\* number of take-order entries bundled for a mode >= 1
ordersOfMode(mode) ==
    IF mode = 1 THEN 1 ELSE IF mode = 2 THEN 2 ELSE 3

\* the span attributes of a rejected dryrun that findOpp records per hop
\* (error "none": no "error" key)
hopAttributes(maximumInput, route, error) ==
    [maxInput |-> maximumInput, route |-> route, error |-> error]

dryrunReject(reason, attributes) ==
    [status |-> "rejected", reason |-> reason, data |-> NoData,
     spanAttributes |-> attributes]

\* dryrun as findOpp sees it: est1 and est2 are the outcomes of the two
\* try blocks (block number read and gas estimation), blockNumber is the
\* block number read last
dryrun(mode, maximumInput, gasCoveragePercentage, route, est1, est2, blockNumber) ==
    IF route = "NoWay"
    THEN dryrunReject(NoRoute, hopAttributes(maximumInput, "no-way", "none"))
    ELSE IF est1 # "ok"
    THEN dryrunReject(estimateHaltReason(est1),
                      hopAttributes(maximumInput, "routeVisual", est1))
    ELSE IF gasCoveragePercentage # "0" /\ est2 # "ok"
    THEN dryrunReject(estimateHaltReason(est2),
                      hopAttributes(maximumInput, "routeVisual", est2))
    ELSE [status |-> "fulfilled",
          reason |-> Undefined,
          data   |-> [defined        |-> TRUE,
                      maximumInput   |-> maximumInput,
                      orders         |-> ordersOfMode(mode),
                      mode           |-> mode,
                      oppBlockNumber |-> blockNumber],
          spanAttributes |-> [NoAttributes EXCEPT !.oppBlockNumber = blockNumber]]

\* every way a dryrun call can settle
dryrunResults(mode, maximumInput, gasCoveragePercentage) ==
    {dryrun(mode, maximumInput, gasCoveragePercentage, route, est1, est2, blockNumber) :
        route \in RouteStatuses, est1 \in EstimateOutcomes,
        est2 \in EstimateOutcomes, blockNumber \in BlockNumbers}

-----------------------------------------------------------------------------
(* findOpp *)

\* a step rounded up instead of truncated
hopStepCeil(balance, i) == (balance + (2 ^ i) - 1) \div (2 ^ i)

\* vaultBalance.div(2 ** i)
hopStep(balance, i) == balance \div (2 ^ i)

\* returning early on the first hop only
returnEarlyFirstOnly(i, hops) == i = 1

\* "return early if there was success on first attempt or reached the end"
returnEarly(i, hops) == i = 1 \/ i = hops

\* no early rejection
rejectEarlyNever(reason) == FALSE

\* "reject early in case of no wallet fund"
rejectEarly(reason) == reason = NoWalletFund

\* noRoute following the last failure only
noRouteAfterLast(noRoute, reason) == reason = NoRoute

\* if (e.reason !== DryrunHaltReason.NoRoute) noRoute = false
noRouteAfter(noRoute, reason) ==
    IF reason # NoRoute THEN FALSE ELSE noRoute

\* ignoring the noRoute flag
finalReasonNoOpp(noRoute) == NoOpportunity

\* the reason findOpp rejects with once the loop is over
finalReason(noRoute) ==
    IF noRoute THEN NoRoute ELSE NoOpportunity

\* findOpp up to its first await: hop 1's dryrun is called with vaultBalance
findOppStart(mode, balance) ==
    [mode         |-> mode,
     status       |-> "pending",
     i            |-> 1,
     maximumInput |-> balance,
     noRoute      |-> TRUE,
     allReasons   |-> <<>>,
     allHopsAttributes |-> <<>>,
     value        |-> [data |-> NoData, reason |-> Undefined,
                       spanAttributes |-> NoAttributes],
     calls        |-> <<balance>>,
     outcomes     |-> <<>>]

\* the loop going on for one hop more
findOppNextOneMore(p, hops) ==
    LET q == [p EXCEPT !.i = p.i + 1] IN
    IF q.i < hops + 2
    THEN [q EXCEPT !.calls = Append(q.calls, q.maximumInput)]
    ELSE [q EXCEPT !.status = "rejected",
                   !.value = [data |-> NoData,
                              reason |-> finalReason(q.noRoute),
                              spanAttributes |->
                                  [NoAttributes EXCEPT
                                      !.hopsSet = TRUE,
                                      !.hops = q.allHopsAttributes]]]

\* the for loop's i++ and condition, then either the next hop's dryrun call
\* or the rejection after the loop
findOppNext(p, hops) ==
    LET q == [p EXCEPT !.i = p.i + 1] IN
    IF q.i < hops + 1
    THEN [q EXCEPT !.calls = Append(q.calls, q.maximumInput)]
    ELSE [q EXCEPT !.status = "rejected",
                   !.value = [data |-> NoData,
                              reason |-> finalReason(q.noRoute),
                              spanAttributes |->
                                  [NoAttributes EXCEPT
                                      !.hopsSet = TRUE,
                                      !.hops = q.allHopsAttributes]]]

\* if (i !== 1) delete e.spanAttributes["error"]
recordedAttributes(attributes, i) ==
    IF i # 1 THEN [attributes EXCEPT !.error = "none"] ELSE attributes

\* findOpp from the settlement d of hop p.i's dryrun to its next await or end
findOppHop(p, d, balance, hops) ==
    LET r == [p EXCEPT !.outcomes = Append(p.outcomes, d)] IN
    IF d.status = "fulfilled"
    THEN IF returnEarly(r.i, hops)
         THEN [r EXCEPT !.status = "fulfilled",
                        !.value = [data |-> d.data, reason |-> d.reason,
                                   spanAttributes |-> d.spanAttributes]]
         ELSE findOppNext(
                [r EXCEPT !.maximumInput = r.maximumInput + hopStep(balance, r.i)],
                hops)
    ELSE IF rejectEarly(d.reason)
         THEN [r EXCEPT !.status = "rejected",
                        !.value = [data |-> NoData, reason |-> NoWalletFund,
                                   spanAttributes |-> NoAttributes]]
         ELSE findOppNext(
                [r EXCEPT !.allReasons = Append(r.allReasons, d.reason),
                          !.allHopsAttributes =
                              Append(r.allHopsAttributes,
                                     recordedAttributes(d.spanAttributes, r.i)),
                          !.noRoute = noRouteAfter(r.noRoute, d.reason),
                          !.maximumInput = r.maximumInput - hopStep(balance, r.i)],
                hops)

-----------------------------------------------------------------------------
(* findOppWithRetries *)

\* resuming as soon as one promise settled
anySettled(ps) == \E m \in DOMAIN ps : ps[m].status # "pending"

\* await Promise.allSettled(promises)
allSettled(ps) == \A m \in DOMAIN ps : ps[m].status # "pending"

\* allPromises.some(v => v.status === "fulfilled")
someFulfilled(ps) == \E m \in DOMAIN ps : ps[m].status = "fulfilled"

\* replacing the choice on a tie too
replacesChoiceLte(cur, cand) ==
    \/ ~cur.defined
    \/ cur.maximumInput <= cand.maximumInput

\* !choice || choice.maximumInput.lt(candidate.maximumInput)
replacesChoice(cur, cand) ==
    \/ ~cur.defined
    \/ cur.maximumInput < cand.maximumInput

\* the loop choosing, from index k on, the fulfilled result that clears most
RECURSIVE choose(_, _, _)
choose(ps, k, cur) ==
    IF k > Len(ps) THEN cur
    ELSE IF ps[k].status = "fulfilled" /\ replacesChoice(cur, ps[k].value.data)
         THEN choose(ps, k + 1, ps[k].value.data)
         ELSE choose(ps, k + 1, cur)

\* for (attrKey in from) to[attrKey] = from[attrKey]
copyAttributes(to, from) ==
    [hopsSet        |-> to.hopsSet \/ from.hopsSet,
     hops           |-> IF from.hopsSet THEN from.hops ELSE to.hops,
     oppBlockNumber |-> IF from.oppBlockNumber # 0
                        THEN from.oppBlockNumber ELSE to.oppBlockNumber]

\* the span attributes recorded by the loop that chooses the result
RECURSIVE chooseAttributes(_, _, _, _)
chooseAttributes(ps, k, cur, attributes) ==
    IF k > Len(ps) THEN attributes
    ELSE IF ps[k].status = "fulfilled" /\ replacesChoice(cur, ps[k].value.data)
         THEN chooseAttributes(ps, k + 1, ps[k].value.data,
                               copyAttributes(attributes, ps[k].value.spanAttributes))
         ELSE chooseAttributes(ps, k + 1, cur, attributes)

\* looking at the first rejection only
rejectionReasonFirstOnly(ps, k) ==
    IF ps[1].value.reason = NoWalletFund THEN NoWalletFund
    ELSE IF ps[1].value.reason = NoRoute THEN NoRoute
    ELSE NoOpportunity

\* the loop over the rejections, from index k on
RECURSIVE rejectionReason(_, _)
rejectionReason(ps, k) ==
    IF k > Len(ps) THEN NoOpportunity
    ELSE IF ps[k].value.reason = NoWalletFund THEN NoWalletFund
    ELSE IF ps[k].value.reason = NoRoute THEN NoRoute
    ELSE rejectionReason(ps, k + 1)

\* recording the attributes of the last rejection
rejectionAttributesLast(ps) == ps[Len(ps)].value.spanAttributes

\* "record all retries span attributes in case neither of above errors
\* were present": the attributes of allPromises[0]
rejectionAttributes(ps) == copyAttributes(NoAttributes, ps[1].value.spanAttributes)

\* what findOppWithRetries throws when no promise is fulfilled
rejection(ps) ==
    LET reason == rejectionReason(ps, 1) IN
    [data |-> NoData,
     reason |-> reason,
     spanAttributes |-> IF reason = NoOpportunity
                        THEN rejectionAttributes(ps) ELSE NoAttributes]

-----------------------------------------------------------------------------
(* Actions *)

Configs(maxHops, maxRetries) ==
    [hops : 1..maxHops, retries : 1..maxRetries, gasCoveragePercentage : GasCoverages]

InitWith(maxVault, maxHops, maxRetries) ==
    /\ vaultBalance \in 0..maxVault
    /\ config \in Configs(maxHops, maxRetries)
    /\ promises = <<>>
    /\ settleOrder = <<>>
    /\ started = <<>>
    /\ pc = "start"
    /\ result = [data |-> NoData, reason |-> Undefined,
                 spanAttributes |-> NoAttributes]
    /\ dr = [pc |-> "idle"]
    /\ pp = [pc |-> "idle"]
    /\ signer = [BALANCE |-> 0, BOUNTY |-> <<>>]
    /\ fetchedPairPools = <<>>
    /\ po = [pc |-> "idle"]
    /\ call = [pc |-> "idle"]

\* one findOpp, every vault balance and hop budget
Init == InitWith(MaxVault, MaxHops, 1)

\* several concurrent findOpp
InitRetries == InitWith(MaxVaultR, MaxHopsR, MaxRetries)

\* findOppWithRetries invokes findOpp for mode 1..retries and awaits them all
Launch ==
    /\ pc = "start"
    /\ promises' = [m \in 1..config.retries |-> findOppStart(m, vaultBalance)]
    /\ started' = [m \in 1..config.retries |-> m]
    /\ pc' = "awaiting"
    /\ UNCHANGED <<vaultBalance, config, settleOrder, result, dr, pairVars, po, call>>

\* the dryrun awaited by mode m's findOpp settles and findOpp runs on
Hop(m) ==
    /\ pc = "awaiting"
    /\ m \in DOMAIN promises
    /\ promises[m].status = "pending"
    /\ \E d \in dryrunResults(m, promises[m].maximumInput,
                              config.gasCoveragePercentage) :
         LET p == findOppHop(promises[m], d, vaultBalance, config.hops)
         IN /\ promises' = [promises EXCEPT ![m] = p]
            /\ settleOrder' = IF p.status # "pending"
                              THEN Append(settleOrder, m) ELSE settleOrder
    /\ UNCHANGED <<vaultBalance, config, started, pc, result, dr, pairVars, po, call>>

\* Promise.allSettled resolves; findOppWithRetries returns or throws
Settle ==
    /\ pc = "awaiting"
    /\ allSettled(promises)
    /\ IF someFulfilled(promises)
       THEN /\ result' = [data |-> choose(promises, 1, NoData),
                          reason |-> Undefined,
                          spanAttributes |->
                              chooseAttributes(promises, 1, NoData, NoAttributes)]
            /\ pc' = "fulfilled"
       ELSE /\ result' = rejection(promises)
            /\ pc' = "rejected"
    /\ UNCHANGED <<vaultBalance, config, promises, settleOrder, started, dr, pairVars, po, call>>

Next ==
    \/ Launch
    \/ \E m \in DOMAIN promises : Hop(m)
    \/ Settle

Spec == Init /\ [][Next]_vars

SpecRetries == InitRetries /\ [][Next]_vars

\* one findOpp whose awaited dryrun calls settle in the end
SpecFair == Init /\ [][Next]_vars /\ WF_vars(Next)

-----------------------------------------------------------------------------
(* dryrun, await by await.  Token decimals are 18 and ethPrice is a whole  *)
(* number, so that parseUnits(ethPrice).mul(gasCost).div(1e18) is          *)
(* ethPrice * gasCost.                                                     *)

\* what signer.estimateGas can do: resolve with an amount of gas or throw
GasEstimates ==
    {[outcome |-> "ok", value |-> g] : g \in 0..MaxGas}
        \cup {[outcome |-> e, value |-> 0] : e \in EstimateOutcomes \ {"ok"}}

\* what signer.provider.getBlockNumber can do: resolve with a number or throw
BlockAnswers ==
    {[outcome |-> "ok", value |-> b] : b \in BlockNumbers}
        \cup {[outcome |-> e, value |-> 0] : e \in EstimateOutcomes \ {"ok"}}

GasPrices == 1..MaxGasPrice

EthPrices == 0..MaxEthPrice

\* the transaction before it is built
NoTx == [built |-> FALSE, minimumSenderOutput |-> 0, gasLimit |-> 0, orders |-> 0,
         maximumInput |-> 0, gasPrice |-> 0]

\* rawtx: arb(takeOrdersConfigStruct, minimumSenderOutput), to, gasPrice;
\* gasLimit 0 stands for no gasLimit key
buildTx(mode, maximumInput, gasPrice, minimumSenderOutput) ==
    [built |-> TRUE, minimumSenderOutput |-> minimumSenderOutput, gasLimit |-> 0,
     orders |-> ordersOfMode(mode), maximumInput |-> maximumInput,
     gasPrice |-> gasPrice]

\* taking every route status for a route
isNoWayNever(status) == FALSE

\* route.status == "NoWay"
isNoWay(status) == status = "NoWay"

\* the limit rounded up
gasLimitCeil(g) == (g * 103 + 99) \div 100

\* gasLimit.mul("103").div("100")
gasLimitOf(g) == (g * 103) \div 100

\* Number(config.gasCoveragePercentage)
NumberOf(s) == IF s = "100" THEN 100 ELSE 0

\* (Number(config.gasCoveragePercentage) * 1.05).toFixed()
headroom(gasCoveragePercentage) ==
    (NumberOf(gasCoveragePercentage) * 105 + 50) \div 100

\* parseUnits(ethPrice).mul(gasCost).div(10 ** (36 - buyTokenDecimals))
gasCostInTokenOf(ethPrice, gasLimit, gasPrice) == ethPrice * (gasLimit * gasPrice)

\* gasCostInToken.mul(headroom).div("100")
minimumSenderOutputOf(gasCostInToken, gasCoveragePercentage) ==
    (gasCostInToken * headroom(gasCoveragePercentage)) \div 100

\* never estimating a second time
estimatesAgainNever(gasCoveragePercentage) == FALSE

\* config.gasCoveragePercentage !== "0"
estimatesAgain(gasCoveragePercentage) == gasCoveragePercentage # "0"

\* the span attributes dryrun collects (0, "unset", "none": key not set)
dryrunAttributes(maximumInput) ==
    [maxInput |-> maximumInput, route |-> "unset", blockNumber |-> 0,
     error |-> "none", oppBlockNumber |-> 0]

\* result.data of a dryrun that has not resolved
NoDryrunData ==
    [defined |-> FALSE, rawtx |-> NoTx, maximumInput |-> 0, gasCostInToken |-> 0,
     oppBlockNumber |-> 0]

\* dryrun when called
dryrunStart(mode, maximumInput, gasPrice, ethPrice) ==
    [pc             |-> "route",
     mode           |-> mode,
     maximumInput   |-> maximumInput,
     gasPrice       |-> gasPrice,
     ethPrice       |-> ethPrice,
     route          |-> "unset",
     rawtx          |-> NoTx,
     gasCostInToken |-> 0,
     blockNumber    |-> 0,
     estimates      |-> <<>>,
     spanAttributes |-> dryrunAttributes(maximumInput),
     result         |-> [data |-> NoDryrunData, reason |-> Undefined,
                         spanAttributes |-> dryrunAttributes(maximumInput)]]

\* return Promise.reject(result)
dryrunRejected(d, reason) ==
    [d EXCEPT !.pc = "rejected",
              !.result = [data |-> NoDryrunData, reason |-> reason,
                          spanAttributes |-> d.spanAttributes]]

\* "if reached here, it means there was a success and found opp"
dryrunFulfilled(d) ==
    [d EXCEPT !.pc = "fulfilled",
              !.result = [data |-> [defined        |-> TRUE,
                                    rawtx          |-> d.rawtx,
                                    maximumInput   |-> d.maximumInput,
                                    gasCostInToken |-> d.gasCostInToken,
                                    oppBlockNumber |-> d.blockNumber],
                          reason |-> Undefined,
                          spanAttributes |->
                              [dryrunAttributes(d.maximumInput) EXCEPT
                                  !.maxInput = 0,
                                  !.oppBlockNumber = d.blockNumber]]]

\* the catch of either try block
dryrunCaught(d, e) ==
    dryrunRejected(
        [d EXCEPT !.spanAttributes.route = "routeVisual",
                  !.spanAttributes.error = e],
        estimateHaltReason(e))

\* a try block: the block number is read, then gas is estimated for rawtx;
\* blk and est are "ok" or the error thrown, blockNumber and gas the answers
dryrunTry(d, blk, blockNumber, est, gas) ==
    IF blk # "ok"
    THEN [caught |-> TRUE, error |-> blk, d |-> d]
    ELSE LET e == [d EXCEPT
                      !.blockNumber = blockNumber,
                      !.spanAttributes.blockNumber = blockNumber,
                      !.estimates = Append(d.estimates,
                                           [tx |-> d.rawtx, outcome |-> est,
                                            gas |-> IF est = "ok" THEN gas ELSE 0])]
         IN [caught |-> est # "ok", error |-> est, d |-> e]

\* from the call to the first await
dryrunRoute(d, status) ==
    IF isNoWay(status)
    THEN dryrunRejected(
            [d EXCEPT !.route = status, !.spanAttributes.route = "no-way"],
            NoRoute)
    ELSE [d EXCEPT !.route = status,
                   !.pc = "estimate1",
                   !.rawtx = buildTx(d.mode, d.maximumInput, d.gasPrice, 0)]

\* the first try block and what follows it up to the next await or the end
dryrunEstimate1(d, gasCoveragePercentage, blk, blockNumber, est, gas) ==
    LET t == dryrunTry(d, blk, blockNumber, est, gas) IN
    IF t.caught THEN dryrunCaught(t.d, t.error)
    ELSE LET limit == gasLimitOf(gas)
             cost  == gasCostInTokenOf(d.ethPrice, limit, d.gasPrice)
             e     == [t.d EXCEPT !.rawtx.gasLimit = limit,
                                  !.gasCostInToken = cost]
         IN IF estimatesAgain(gasCoveragePercentage)
            THEN [e EXCEPT !.pc = "estimate2",
                           !.rawtx.minimumSenderOutput =
                               minimumSenderOutputOf(cost, gasCoveragePercentage)]
            ELSE dryrunFulfilled(e)

\* the second try block
dryrunEstimate2(d, blk, blockNumber, est, gas) ==
    LET t == dryrunTry(d, blk, blockNumber, est, gas) IN
    IF t.caught THEN dryrunCaught(t.d, t.error) ELSE dryrunFulfilled(t.d)

InitDryrun ==
    /\ vaultBalance = 0
    /\ config \in Configs(1, 1)
    /\ promises = <<>>
    /\ settleOrder = <<>>
    /\ started = <<>>
    /\ pc = "idle"
    /\ result = [data |-> NoData, reason |-> Undefined,
                 spanAttributes |-> NoAttributes]
    /\ \E mode \in 1..3, maximumInput \in 1..MaxInput,
          gasPrice \in GasPrices, ethPrice \in EthPrices :
         dr = dryrunStart(mode, maximumInput, gasPrice, ethPrice)
    /\ pp = [pc |-> "idle"]
    /\ signer = [BALANCE |-> 0, BOUNTY |-> <<>>]
    /\ fetchedPairPools = <<>>
    /\ po = [pc |-> "idle"]
    /\ call = [pc |-> "idle"]

DryrunRoute ==
    /\ dr.pc = "route"
    /\ \E status \in RouteStatuses : dr' = dryrunRoute(dr, status)
    /\ UNCHANGED <<vaultBalance, config, promises, settleOrder, started, pc, result,
                   pairVars, po, call>>

DryrunEstimate1 ==
    /\ dr.pc = "estimate1"
    /\ \E blk \in BlockAnswers, est \in GasEstimates :
         dr' = dryrunEstimate1(dr, config.gasCoveragePercentage,
                               blk.outcome, blk.value, est.outcome, est.value)
    /\ UNCHANGED <<vaultBalance, config, promises, settleOrder, started, pc, result,
                   pairVars, po, call>>

DryrunEstimate2 ==
    /\ dr.pc = "estimate2"
    /\ \E blk \in BlockAnswers, est \in GasEstimates :
         dr' = dryrunEstimate2(dr, blk.outcome, blk.value, est.outcome, est.value)
    /\ UNCHANGED <<vaultBalance, config, promises, settleOrder, started, pc, result,
                   pairVars, po, call>>

NextDryrun ==
    \/ DryrunRoute
    \/ DryrunEstimate1
    \/ DryrunEstimate2

SpecDryrun == InitDryrun /\ [][NextDryrun]_vars

-----------------------------------------------------------------------------
(* processPair, await by await.  Prices are whole numbers and tokens have  *)
(* 18 decimals, as for dryrun; a pair key `${a}/${b}` is the tuple <<a, b>>.*)

\* ProcessPairHaltReason
FailedToQuote == 1
FailedToGetGasPrice == 2
FailedToGetEthPrice == 3
FailedToGetPools == 4
TxFailed == 5
TxMineFailed == 6

\* ProcessPairReportStatus
ZeroOutput == 1
ReportNoOpportunity == 2
FoundOpportunity == 3

Tokens == {"A", "B"}

\* config.nativeWrappedToken.symbol
nativeWrappedToken == "W"

\* an undefined value and a defined one
None == [defined |-> FALSE, value |-> 0]

Some(v) == [defined |-> TRUE, value |-> v]

Messages == {"m1", "m2"}

\* a thrown Error object, a thrown or rejected string, no error
ErrorOf(m) == [kind |-> "Error", message |-> m]

StringOf(m) == [kind |-> "string", message |-> m]

NoError == [kind |-> "undefined", message |-> ""]

Errors == {ErrorOf(m) : m \in Messages}

\* what an awaited call can do: resolve with one of values, or throw
Answers(values) ==
    {[ok |-> TRUE, value |-> v, error |-> NoError] : v \in values}
        \cup {[ok |-> FALSE, value |-> 0, error |-> ErrorOf("m1")]}

\* doQuoteTargets(...)[0]: a quote, a failure string, or a throw
QuoteAnswers ==
    {[kind |-> "quote", maxOutput |-> m, error |-> NoError] : m \in 0..MaxOutput}
        \cup {[kind |-> "string", maxOutput |-> 0,
               error |-> StringOf("failed to quote order, reason: r")]}
        \cup {[kind |-> "throw", maxOutput |-> 0, error |-> e] : e \in Errors}

\* getEthPrice: a price string (truthy, also for a price of 0), undefined, or a throw
PriceAnswers == Answers({None} \cup {Some(x) : x \in EthPrices})

\* findOpp of ./modes: fulfilled with value {rawtx, oppBlockNumber, estimatedProfit}
\* or rejected with a reason
FindOppAnswers ==
    {[fulfilled |-> TRUE, reason |-> Undefined, oppBlockNumber |-> 1]}
        \cup {[fulfilled |-> FALSE, reason |-> r, oppBlockNumber |-> 0] :
                r \in {NoOpportunity, NoWalletFund, NoRoute}}

NoOpp == [fulfilled |-> FALSE, reason |-> Undefined, oppBlockNumber |-> 0]

ReceiptGas == 1..MaxReceiptGas

Incomes == {None} \cup {Some(x) : x \in 0..MaxIncome}

\* waitForTransactionReceipt: a receipt, or a throw with or without e.receipt
ReceiptAnswers ==
    {[kind |-> k, hasReceipt |-> TRUE, effectiveGasPrice |-> g, gasUsed |-> u,
      inputTokenIncome |-> i, outputTokenIncome |-> o, error |-> NoError] :
        k \in {"success"}, g \in ReceiptGas, u \in ReceiptGas,
        i \in Incomes, o \in Incomes}
    \cup
    {[kind |-> "reverted", hasReceipt |-> TRUE, effectiveGasPrice |-> g, gasUsed |-> u,
      inputTokenIncome |-> None, outputTokenIncome |-> None, error |-> NoError] :
        g \in ReceiptGas, u \in ReceiptGas}
    \cup
    {[kind |-> "throw", hasReceipt |-> TRUE, effectiveGasPrice |-> g, gasUsed |-> u,
      inputTokenIncome |-> None, outputTokenIncome |-> None,
      error |-> ErrorOf("m1")] :
        g \in ReceiptGas, u \in ReceiptGas}
    \cup
    {[kind |-> "throw", hasReceipt |-> FALSE, effectiveGasPrice |-> 0, gasUsed |-> 0,
      inputTokenIncome |-> None, outputTokenIncome |-> None,
      error |-> ErrorOf("m1")]}

\* no receipt answer yet
NoReceipt ==
    [kind |-> "none", hasReceipt |-> FALSE, effectiveGasPrice |-> 0, gasUsed |-> 0,
     inputTokenIncome |-> None, outputTokenIncome |-> None, error |-> NoError]

\* result.report before it is set
NoReport ==
    [status |-> Undefined, tokenPair |-> <<>>, buyToken |-> "", sellToken |-> "",
     txUrl |-> None, actualGasCost |-> None, income |-> None, netProfit |-> None,
     inputTokenIncome |-> None, outputTokenIncome |-> None]

\* {status, tokenPair: pair, buyToken, sellToken}
reportOf(p, status) ==
    [NoReport EXCEPT !.status = status, !.tokenPair = p.pair,
                     !.buyToken = p.buyToken, !.sellToken = p.sellToken]

\* processPair when called; before and cacheBefore are the signer and the
\* cache at that time
processPairStart(buyToken, sellToken, rpcs, before, cacheBefore) ==
    [pc               |-> "quote",
     buyToken         |-> buyToken,
     sellToken        |-> sellToken,
     pair             |-> <<buyToken, sellToken>>,
     rpcs             |-> rpcs,
     i                |-> 1,
     quotes           |-> <<>>,
     quote            |-> None,
     gasPrice         |-> 0,
     inputToEthPrice  |-> None,
     outputToEthPrice |-> None,
     priceUnavailable |-> "no",
     receipt          |-> NoReceipt,
     run              |-> 1,
     cacheBefore      |-> cacheBefore,
     fetchedEarlier   |-> {},
     opp              |-> NoOpp,
     txhash           |-> None,
     calls            |-> <<>>,
     before           |-> before,
     result           |-> [reason |-> Undefined, error |-> NoError,
                           report |-> NoReport, gasCost |-> None,
                           rawTx |-> FALSE, blockNumberError |-> FALSE]]

\* a call to a collaborator, with the result as it stood when the call was made
called(p, name) ==
    [p EXCEPT !.calls = Append(@, [name   |-> name,
                                   reason |-> p.result.reason,
                                   status |-> p.result.report.status])]

\* throw result / return Promise.reject(result)
halt(p, reason, error) ==
    [p EXCEPT !.pc = "rejected", !.result.reason = reason, !.result.error = error]

\* return result
resolve(p) == [p EXCEPT !.pc = "resolved"]

\* array.includes(x)
includes(array, x) == \E k \in DOMAIN array : array[k] = x

\* if (!array.includes(x)) array.push(x)
pushNew(array, x) == IF includes(array, x) THEN array ELSE Append(array, x)


\* quote.maxOutput.isZero() never holding
isZeroNever(maxOutput) == FALSE

\* quote.maxOutput.isZero()
isZero(maxOutput) == maxOutput = 0

\* if (i === rpcs.length - 1), the endpoints counted from 1
isLastRpc(i, rpcs) == i = rpcs

\* the message of the first error instead of the current one
thrownFirst(quotes) == StringOf(quotes[1].error.message)

\* throw e?.message, e the error of the endpoint just tried
thrown(quotes) == StringOf(quotes[Len(quotes)].error.message)

\* the quote stage: one endpoint is asked; quoteSingleOrder returns, rejects
\* or goes on to the next endpoint, and processPair acts on a return or a rejection
processPairQuote(p, q) ==
    LET c == [called(p, "doQuoteTargets") EXCEPT !.quotes = Append(@, q)] IN
    IF q.kind = "quote"
    THEN LET d == [c EXCEPT !.quote = Some(q.maxOutput)] IN
         IF isZero(q.maxOutput)
         THEN resolve([d EXCEPT !.result.report = reportOf(d, ZeroOutput)])
         ELSE [d EXCEPT !.pc = "gasPrice"]
    ELSE IF q.kind = "string"
    THEN halt(c, FailedToQuote, q.error)
    ELSE IF isLastRpc(c.i, c.rpcs)
    THEN halt(c, FailedToQuote, thrown(c.quotes))
    ELSE [c EXCEPT !.i = @ + 1]

\* the gas price stage, up to the pool fetch or past it
processPairGasPrice(p, a, cache) ==
    LET c == called(p, "getGasPrice") IN
    IF a.ok
    THEN [c EXCEPT !.gasPrice = a.value,
                   !.pc = IF includes(cache, c.pair) THEN "inputToEthPrice"
                                                     ELSE "pools"]
    ELSE halt(c, FailedToGetGasPrice, a.error)

\* the pool fetch
processPairPools(p, a) ==
    LET c == called(p, "fetchPoolsForToken") IN
    IF a.ok THEN [c EXCEPT !.pc = "inputToEthPrice"]
    ELSE halt(c, FailedToGetPools, a.error)

\* the cache after the pool fetch, only the pair's own key kept
poolsFetchedOneKey(p, a, cache) ==
    IF a.ok THEN pushNew(cache, <<p.buyToken, p.sellToken>>) ELSE cache

\* the cache after the pool fetch
poolsFetched(p, a, cache) ==
    IF a.ok
    THEN pushNew(pushNew(cache, <<p.buyToken, p.sellToken>>),
                 <<p.sellToken, p.buyToken>>)
    ELSE cache

\* whether a price lookup so far returned nothing ("nothing") or threw ("threw")
unavailable(before, a) ==
    IF before # "no" THEN before
    ELSE IF ~a.ok THEN "threw"
    ELSE IF ~a.value.defined THEN "nothing"
    ELSE "no"

\* the catch of the price lookups halting whatever the gas coverage
priceCaughtHalts(p, gasCoveragePercentage, e) ==
    halt(p, FailedToGetEthPrice, e)

\* the catch of the price lookups
priceCaught(p, gasCoveragePercentage, e) ==
    IF gasCoveragePercentage = "0"
    THEN [p EXCEPT !.inputToEthPrice = Some(0), !.outputToEthPrice = Some(0),
                   !.pc = "findOpp"]
    ELSE halt(p, FailedToGetEthPrice, e)

\* the buy token's price lookup
processPairInputPrice(p, a, gasCoveragePercentage) ==
    LET c == [called(p, "getEthPrice") EXCEPT
                 !.priceUnavailable = unavailable(@, a)] IN
    IF a.ok THEN [c EXCEPT !.inputToEthPrice = a.value, !.pc = "outputToEthPrice"]
    ELSE priceCaught(c, gasCoveragePercentage, a.error)

\* !inputToEthPrice || !outputToEthPrice
priceMissing(p) == ~p.inputToEthPrice.defined \/ ~p.outputToEthPrice.defined

\* the sell token's price lookup and the check of both prices
processPairOutputPrice(p, a, gasCoveragePercentage) ==
    LET c == [called(p, "getEthPrice") EXCEPT
                 !.priceUnavailable = unavailable(@, a)] IN
    IF ~a.ok THEN priceCaught(c, gasCoveragePercentage, a.error)
    ELSE LET d == [c EXCEPT !.outputToEthPrice = a.value] IN
         IF priceMissing(d)
         THEN IF gasCoveragePercentage = "0"
              THEN [d EXCEPT !.inputToEthPrice = Some(0),
                             !.outputToEthPrice = Some(0),
                             !.pc = "findOpp"]
              ELSE halt(d, FailedToGetEthPrice, NoError)
         ELSE [d EXCEPT !.pc = "findOpp"]

\* the cache after the price lookups
pricesFetched(p, a, cache) ==
    IF a.ok /\ ~priceMissing([p EXCEPT !.outputToEthPrice = a.value])
    THEN pushNew(pushNew(cache, <<p.buyToken, nativeWrappedToken>>),
                 <<p.sellToken, nativeWrappedToken>>)
    ELSE cache

\* the catch of findOpp going on to submit
findOppCaughtSubmits(p, e) ==
    [p EXCEPT !.result.report = reportOf(p, ReportNoOpportunity),
              !.pc = "blockNumber"]

\* the catch of findOpp throwing the result
findOppCaughtThrows(p, e) ==
    [p EXCEPT !.result.report = reportOf(p, ReportNoOpportunity),
              !.pc = "rejected"]

\* the catch of findOpp
findOppCaught(p, e) ==
    resolve([p EXCEPT !.result.report = reportOf(p, ReportNoOpportunity)])

\* the opportunity search
processPairFindOpp(p, o) ==
    LET c == [called(p, "findOpp") EXCEPT !.opp = o] IN
    IF o.fulfilled
    THEN [c EXCEPT !.result.report = reportOf(c, FoundOpportunity),
                   !.pc = "blockNumber"]
    ELSE findOppCaught(c, o)

\* the block number read before submitting; a failure is only recorded
processPairBlockNumber(p, a) ==
    [called(p, "getBlockNumber") EXCEPT !.result.blockNumberError = ~a.ok,
                                        !.pc = "send"]

\* the submission, the raw transaction not recorded on a failure
processPairSendNoRawTx(p, a) ==
    LET c == called(p, "sendTransaction") IN
    IF a.ok THEN [c EXCEPT !.txhash = Some(a.value), !.pc = "receipt"]
    ELSE halt(c, TxFailed, a.error)

\* the submission
processPairSend(p, a) ==
    LET c == called(p, "sendTransaction") IN
    IF a.ok THEN [c EXCEPT !.txhash = Some(a.value), !.pc = "receipt"]
    ELSE halt([c EXCEPT !.result.rawTx = TRUE], TxFailed, a.error)

\* the two receipt fields added instead of multiplied
actualGasCostSum(r) == r.effectiveGasPrice + r.gasUsed

\* effectiveGasPrice * gasUsed
actualGasCostOf(r) == r.effectiveGasPrice * r.gasUsed

\* getTotalIncome; an income that is defined is truthy, also when zero
getTotalIncome(inputTokenIncome, outputTokenIncome, inputTokenPrice, outputTokenPrice) ==
    IF inputTokenIncome.defined /\ outputTokenIncome.defined
    THEN Some(inputTokenPrice * inputTokenIncome.value
                + outputTokenPrice * outputTokenIncome.value)
    ELSE IF inputTokenIncome.defined
    THEN Some(inputTokenPrice * inputTokenIncome.value)
    ELSE IF outputTokenIncome.defined
    THEN Some(outputTokenPrice * outputTokenIncome.value)
    ELSE None

\* the receipt stage
processPairReceipt(p, r) ==
    LET c == [called(p, "waitForTransactionReceipt") EXCEPT !.receipt = r]
        cost == actualGasCostOf(r)
        found == [reportOf(c, FoundOpportunity) EXCEPT !.txUrl = c.txhash]
    IN
    IF r.kind = "success"
    THEN LET income == getTotalIncome(r.inputTokenIncome, r.outputTokenIncome,
                                      c.inputToEthPrice.value,
                                      c.outputToEthPrice.value)
             netProfit == IF income.defined THEN Some(income.value - cost)
                                            ELSE None
         IN resolve([c EXCEPT
                !.result.report =
                    [found EXCEPT !.actualGasCost = Some(cost),
                                  !.income = income,
                                  !.netProfit = netProfit,
                                  !.inputTokenIncome = r.inputTokenIncome,
                                  !.outputTokenIncome = r.outputTokenIncome],
                !.result.gasCost = Some(cost)])
    ELSE IF r.kind = "reverted"
    THEN halt([c EXCEPT !.result.report =
                            [found EXCEPT !.actualGasCost = Some(cost)]],
              TxMineFailed, NoError)
    ELSE halt([c EXCEPT !.result.report =
                            [found EXCEPT !.actualGasCost =
                                IF r.hasReceipt THEN Some(cost) ELSE None]],
              TxMineFailed, r.error)

\* BOUNTY after an income in token, pushed without looking for the token
bountyAfterNoFind(bounty, income, token) ==
    IF income.defined /\ income.value > 0 THEN Append(bounty, token) ELSE bounty

\* BOUNTY after an income in token
bountyAfter(bounty, income, token) ==
    IF income.defined /\ income.value > 0 THEN pushNew(bounty, token) ELSE bounty

\* the signer after the receipt stage, the gas counted only on success
signerAfterReceiptSuccessOnly(p, r, s) ==
    IF r.kind = "success"
    THEN [s EXCEPT !.BALANCE = @ - actualGasCostOf(r),
                   !.BOUNTY =
                       bountyAfter(bountyAfter(@, r.inputTokenIncome, p.buyToken),
                                   r.outputTokenIncome, p.sellToken)]
    ELSE s

\* the signer after the receipt stage, the catch block taking the gas of the
\* receipt on the error a second time
signerAfterReceiptTwice(p, r, s) ==
    LET spent == [s EXCEPT !.BALANCE = @ - actualGasCostOf(r)] IN
    IF r.kind = "success"
    THEN [spent EXCEPT !.BOUNTY =
            bountyAfter(bountyAfter(@, r.inputTokenIncome, p.buyToken),
                        r.outputTokenIncome, p.sellToken)]
    ELSE IF r.kind = "reverted" THEN spent
    ELSE IF r.hasReceipt
    THEN [spent EXCEPT !.BALANCE = @ - actualGasCostOf(r)]
    ELSE s

\* the signer after the receipt stage
signerAfterReceipt(p, r, s) ==
    LET spent == [s EXCEPT !.BALANCE = @ - actualGasCostOf(r)] IN
    IF r.kind = "success"
    THEN [spent EXCEPT !.BOUNTY =
            bountyAfter(bountyAfter(@, r.inputTokenIncome, p.buyToken),
                        r.outputTokenIncome, p.sellToken)]
    ELSE IF r.hasReceipt THEN spent ELSE s

otherVars == <<vaultBalance, promises, settleOrder, started, pc, result, dr>>

InitPair ==
    /\ vaultBalance = 0
    /\ config \in Configs(1, 1)
    /\ promises = <<>>
    /\ settleOrder = <<>>
    /\ started = <<>>
    /\ pc = "idle"
    /\ result = [data |-> NoData, reason |-> Undefined,
                 spanAttributes |-> NoAttributes]
    /\ dr = [pc |-> "idle"]
    /\ po = [pc |-> "idle"]
    /\ call = [pc |-> "idle"]
    /\ signer \in {[BALANCE |-> MaxBalance, BOUNTY |-> b] : b \in {<<>>, <<"A">>}}
    /\ fetchedPairPools \in {<<>>, << <<"A", "B">>, <<"B", "A">> >>}
    /\ \E buyToken \in Tokens, sellToken \in Tokens, rpcs \in 1..MaxRpcs :
         /\ buyToken # sellToken
         /\ pp = processPairStart(buyToken, sellToken, rpcs, signer, fetchedPairPools)

PairQuote ==
    /\ pp.pc = "quote"
    /\ \E q \in QuoteAnswers : pp' = processPairQuote(pp, q)
    /\ UNCHANGED <<config, signer, fetchedPairPools, otherVars, po, call>>

PairGasPrice ==
    /\ pp.pc = "gasPrice"
    /\ \E a \in Answers({1}) : pp' = processPairGasPrice(pp, a, fetchedPairPools)
    /\ UNCHANGED <<config, signer, fetchedPairPools, otherVars, po, call>>

PairPools ==
    /\ pp.pc = "pools"
    /\ \E a \in Answers({0}) :
         /\ pp' = processPairPools(pp, a)
         /\ fetchedPairPools' = poolsFetched(pp, a, fetchedPairPools)
    /\ UNCHANGED <<config, signer, otherVars, po, call>>

PairInputPrice ==
    /\ pp.pc = "inputToEthPrice"
    /\ \E a \in PriceAnswers :
         pp' = processPairInputPrice(pp, a, config.gasCoveragePercentage)
    /\ UNCHANGED <<config, signer, fetchedPairPools, otherVars, po, call>>

PairOutputPrice ==
    /\ pp.pc = "outputToEthPrice"
    /\ \E a \in PriceAnswers :
         /\ pp' = processPairOutputPrice(pp, a, config.gasCoveragePercentage)
         /\ fetchedPairPools' = pricesFetched(pp, a, fetchedPairPools)
    /\ UNCHANGED <<config, signer, otherVars, po, call>>

PairFindOpp ==
    /\ pp.pc = "findOpp"
    /\ \E o \in FindOppAnswers : pp' = processPairFindOpp(pp, o)
    /\ UNCHANGED <<config, signer, fetchedPairPools, otherVars, po, call>>

PairBlockNumber ==
    /\ pp.pc = "blockNumber"
    /\ \E a \in Answers(BlockNumbers) : pp' = processPairBlockNumber(pp, a)
    /\ UNCHANGED <<config, signer, fetchedPairPools, otherVars, po, call>>

PairSend ==
    /\ pp.pc = "send"
    /\ \E a \in Answers({1}) : pp' = processPairSend(pp, a)
    /\ UNCHANGED <<config, signer, fetchedPairPools, otherVars, po, call>>

PairReceipt ==
    /\ pp.pc = "receipt"
    /\ \E r \in ReceiptAnswers :
         /\ pp' = processPairReceipt(pp, r)
         /\ signer' = signerAfterReceipt(pp, r, signer)
    /\ UNCHANGED <<config, fetchedPairPools, otherVars, po, call>>

\* the cache as a later processPair call finds it: the same dataFetcher
\* processPair calls one after another on the same signer and dataFetcher
processPairAgain(p, buyToken, sellToken, s, cache) ==
    [processPairStart(buyToken, sellToken, p.rpcs, s, cache) EXCEPT
        !.run = p.run + 1,
        !.fetchedEarlier =
            p.fetchedEarlier \cup
                IF \E k \in DOMAIN p.calls :
                       /\ p.calls[k].name = "fetchPoolsForToken"
                       /\ p.result.reason # FailedToGetPools
                THEN {p.pair} ELSE {}]

\* the next processPair called without awaiting the one before
PairStartEarly ==
    /\ pp.pc # "idle"
    /\ pp.run < MaxRuns
    /\ \E buyToken \in Tokens, sellToken \in Tokens :
         /\ buyToken # sellToken
         /\ pp' = processPairAgain(pp, buyToken, sellToken, signer, fetchedPairPools)
    /\ UNCHANGED <<config, signer, fetchedPairPools, otherVars, po, call>>

PairStart ==
    /\ pp.pc \in {"resolved", "rejected"}
    /\ pp.run < MaxRuns
    /\ \E buyToken \in Tokens, sellToken \in Tokens :
         /\ buyToken # sellToken
         /\ pp' = processPairAgain(pp, buyToken, sellToken, signer, fetchedPairPools)
    /\ UNCHANGED <<config, signer, fetchedPairPools, otherVars, po, call>>

NextPair ==
    \/ PairQuote
    \/ PairGasPrice
    \/ PairPools
    \/ PairInputPrice
    \/ PairOutputPrice
    \/ PairFindOpp
    \/ PairBlockNumber
    \/ PairSend
    \/ PairReceipt

SpecPair == InitPair /\ [][NextPair]_vars

InitPairs ==
    /\ InitPair
    /\ signer.BOUNTY = <<>>
    /\ fetchedPairPools = <<>>
    /\ pp.rpcs = 1
    /\ pp.buyToken = "A"

NextPairs == NextPair \/ PairStart

SpecPairs == InitPairs /\ [][NextPairs]_vars

-----------------------------------------------------------------------------
(* processOrders: the batch over the bundled orders (processOrders.js) *)

UnexpectedError == 7

mainAccount == "main"

\* config.accounts: no worker accounts, one, or two of them
AccountLists == {<<>>, <<"a1">>, <<"a1", "a2">>}

\* actualGasCost of a receipt
GasCosts == {g * u : g \in ReceiptGas, u \in ReceiptGas}

\* orderPairObject as far as the reports show it
orderPairObject(buyToken, sellToken) ==
    [pair |-> <<buyToken, sellToken>>, buyToken |-> buyToken, sellToken |-> sellToken]

\* what processPair settles with, as processOrders reads it: result.reason,
\* result.error, result.report and result.gasCost; the last outcome is an
\* exception thrown outside processPair's try blocks, which has none of them
ProcessPairOutcomes(buyToken, sellToken) ==
    LET p == orderPairObject(buyToken, sellToken)
        found == reportOf(p, FoundOpportunity)
    IN
    {[settled |-> "resolved", reason |-> Undefined, error |-> NoError,
      report |-> reportOf(p, status), gasCost |-> None] :
        status \in {ZeroOutput, ReportNoOpportunity}}
    \cup
    {[settled |-> "resolved", reason |-> Undefined, error |-> NoError,
      report |-> [found EXCEPT !.actualGasCost = Some(c)], gasCost |-> Some(c)] :
        c \in GasCosts}
    \cup
    {[settled |-> "rejected", reason |-> r, error |-> ErrorOf("m1"),
      report |-> NoReport, gasCost |-> None] :
        r \in {FailedToQuote, FailedToGetGasPrice, FailedToGetPools,
               FailedToGetEthPrice}}
    \cup
    {[settled |-> "rejected", reason |-> TxFailed, error |-> ErrorOf("m1"),
      report |-> found, gasCost |-> None]}
    \cup
    {[settled |-> "rejected", reason |-> TxMineFailed, error |-> NoError,
      report |-> [found EXCEPT !.actualGasCost = Some(c)], gasCost |-> None] :
        c \in GasCosts}
    \cup
    {[settled |-> "rejected", reason |-> TxMineFailed, error |-> ErrorOf("m1"),
      report |-> found, gasCost |-> None]}
    \cup
    {[settled |-> "rejected", reason |-> Undefined, error |-> NoError,
      report |-> NoReport, gasCost |-> None]}

\* the pair groups of n take-orders: g[id] is the group of take-order id
Layouts(n) ==
    {g \in [1..n -> 1..n] :
        /\ n > 0 => g[1] = 1
        /\ \A k \in 1..(n - 1) : g[k + 1] \in {g[k], g[k] + 1}}

\* bundleOrders: the pairs of the orderbooks, one orderbook after another,
\* each pair with its take-orders; the tokens alternate from pair to pair
bundleOrders(n, g) ==
    [k \in 1..(IF n = 0 THEN 0 ELSE g[n]) |->
        [buyToken   |-> IF k % 2 = 1 THEN "A" ELSE "B",
         sellToken  |-> IF k % 2 = 1 THEN "B" ELSE "A",
         takeOrders |-> SelectSeq([id \in 1..n |-> id], LAMBDA id : g[id] = k)]]

\* the bundled orders of up to max take-orders
BundledOrdersUpTo(max) ==
    UNION {{bundleOrders(n, g) : g \in Layouts(n)} : n \in 0..max}

BundledOrders == BundledOrdersUpTo(MaxOrders)

\* one entry of quoteResults: an error string, or maxOutput and ratio
NoQuote == [quoted |-> FALSE, maxOutput |-> 0, ratio |-> 0]

QuoteResults ==
    {NoQuote} \cup
    {[quoted |-> TRUE, maxOutput |-> m, ratio |-> r] :
        m \in 0..MaxOutput, r \in 1..MaxRatio}

\* sorted with id put after the take-orders whose ratio is not greater
insertByRatio(sorted, id, quoteResults) ==
    LET k == Cardinality({j \in DOMAIN sorted :
                  quoteResults[sorted[j]].ratio <= quoteResults[id].ratio})
    IN SubSeq(sorted, 1, k) \o <<id>> \o SubSeq(sorted, k + 1, Len(sorted))

RECURSIVE sortByRatio(_, _)
\* takeOrders.sort by ratio, ascending, equal ratios in their earlier order
sortByRatio(takeOrders, quoteResults) ==
    IF takeOrders = <<>> THEN <<>>
    ELSE insertByRatio(sortByRatio(SubSeq(takeOrders, 1, Len(takeOrders) - 1),
                                   quoteResults),
                       takeOrders[Len(takeOrders)], quoteResults)

\* quoteOrders keeping the take-orders quoted with zero maxOutput
quoteOrdersKeepsZero(orderDetails, quoteResults) ==
    LET kept(takeOrders) ==
            SelectSeq(takeOrders, LAMBDA id : quoteResults[id].quoted)
        mapped == [k \in DOMAIN orderDetails |->
                     [orderDetails[k] EXCEPT
                        !.takeOrders = sortByRatio(kept(@), quoteResults)]]
    IN SelectSeq(mapped, LAMBDA pair : Len(pair.takeOrders) > 0)

\* quoteOrders once an endpoint answered: the take-orders without a quote or
\* with zero maxOutput are dropped, the others sorted by ratio, and the pairs
\* left without a take-order removed
quoteOrders(orderDetails, quoteResults) ==
    LET kept(takeOrders) ==
            SelectSeq(takeOrders,
                      LAMBDA id : /\ quoteResults[id].quoted
                                  /\ quoteResults[id].maxOutput > 0)
        mapped == [k \in DOMAIN orderDetails |->
                     [orderDetails[k] EXCEPT
                        !.takeOrders = sortByRatio(kept(@), quoteResults)]]
    IN SelectSeq(mapped, LAMBDA pair : Len(pair.takeOrders) > 0)

\* the take-orders of the bundled orders, in the order of the loops
RECURSIVE flatIds(_)
flatIds(orderDetails) ==
    IF orderDetails = <<>> THEN <<>>
    ELSE orderDetails[1].takeOrders \o flatIds(Tail(orderDetails))

\* avgGasCost after an outcome with this gasCost, averaged from zero
avgGasCostAfterFromZero(avgGasCost, gasCost) ==
    IF ~gasCost.defined THEN avgGasCost
    ELSE Some((avgGasCost.value + gasCost.value) \div 2)

\* avgGasCost after an outcome with this gasCost
avgGasCostAfter(avgGasCost, gasCost) ==
    IF ~gasCost.defined THEN avgGasCost
    ELSE IF ~avgGasCost.defined THEN gasCost
    ELSE Some((avgGasCost.value + gasCost.value) \div 2)

\* reports after an outcome, a rejection pushed only when it has a reason
reportsAfterReasonOnly(reports, o) ==
    IF o.settled = "resolved"
    THEN Append(reports, [report |-> o.report, error |-> NoError,
                          reason |-> Undefined])
    ELSE IF o.reason # Undefined
    THEN Append(reports, [report |-> o.report, error |-> o.error,
                          reason |-> o.reason])
    ELSE reports

\* reports after an outcome: result.report, or {...e.report, error, reason}
reportsAfter(reports, o) ==
    IF o.settled = "resolved"
    THEN Append(reports, [report |-> o.report, error |-> NoError,
                          reason |-> Undefined])
    ELSE IF o.reason # Undefined
    THEN Append(reports, [report |-> o.report, error |-> o.error,
                          reason |-> o.reason])
    ELSE Append(reports, [report |-> o.report, error |-> o.error,
                          reason |-> UnexpectedError])

\* the last account put in first place
rotateAccountsBack(accounts) ==
    IF Len(accounts) > 1
    THEN <<accounts[Len(accounts)]>> \o SubSeq(accounts, 1, Len(accounts) - 1)
    ELSE accounts

\* rotateAccounts
rotateAccounts(accounts) ==
    IF Len(accounts) > 1 THEN Append(Tail(accounts), Head(accounts)) ELSE accounts

\* processOrders when called, after the orders were bundled
processOrdersStart(bundledOrders, rpcs, accounts, flashbotRpc) ==
    [pc            |-> "quoteOrders",
     bundledOrders |-> bundledOrders,
     rpcs          |-> rpcs,
     accounts      |-> accounts,
     flashbotRpc   |-> flashbotRpc,
     pair          |-> 1,
     i             |-> 1,
     signer        |-> "",
     avgGasCost    |-> None,
     reports       |-> <<>>,
     given         |-> bundledOrders,
     accountsGiven |-> accounts,
     attempted     |-> <<>>,
     escaped       |-> ""]

\* the promise of processOrders rejects
escape(o, from) == [o EXCEPT !.pc = "rejected", !.escaped = from]

\* await quoteOrders: it throws when the last endpoint failed as well
processOrdersQuote(o, failed, quoteResults) ==
    IF failed = o.rpcs THEN escape(o, "quoteOrders")
    ELSE LET quoted == quoteOrders(o.bundledOrders, quoteResults) IN
         [o EXCEPT !.bundledOrders = quoted,
                   !.pc = IF quoted = <<>> THEN "resolved" ELSE "signer"]

\* the signer of the next take-order and, with a flashbot rpc, its relay client
processOrdersSigner(o, constructed) ==
    LET s == [o EXCEPT !.signer = IF Len(o.accounts) > 0 THEN o.accounts[1]
                                                         ELSE mainAccount]
    IN IF o.flashbotRpc /\ ~constructed THEN escape(s, "createViemClient")
       ELSE [s EXCEPT !.pc = "processPair"]

\* the accounts rotated only after a processPair call that resolved
processOrdersPairRotateResolved(o, outcome) ==
    LET pairOrders == o.bundledOrders[o.pair]
        more == o.i < Len(pairOrders.takeOrders)
        last == ~more /\ o.pair = Len(o.bundledOrders)
    IN [o EXCEPT
          !.avgGasCost = avgGasCostAfter(@, outcome.gasCost),
          !.reports = reportsAfter(@, outcome),
          !.attempted = Append(@, [id      |-> pairOrders.takeOrders[o.i],
                                   signer  |-> o.signer,
                                   outcome |-> outcome]),
          !.accounts = IF outcome.settled = "resolved" THEN rotateAccounts(@)
                                                           ELSE @,
          !.i = IF more THEN @ + 1 ELSE 1,
          !.pair = IF more \/ last THEN @ ELSE @ + 1,
          !.pc = IF last THEN "resolved" ELSE "signer"]

\* await processPair, the try and the catch, span.end and rotateAccounts
processOrdersPair(o, outcome) ==
    LET pairOrders == o.bundledOrders[o.pair]
        more == o.i < Len(pairOrders.takeOrders)
        last == ~more /\ o.pair = Len(o.bundledOrders)
    IN [o EXCEPT
          !.avgGasCost = avgGasCostAfter(@, outcome.gasCost),
          !.reports = reportsAfter(@, outcome),
          !.attempted = Append(@, [id      |-> pairOrders.takeOrders[o.i],
                                   signer  |-> o.signer,
                                   outcome |-> outcome]),
          !.accounts = rotateAccounts(@),
          !.i = IF more THEN @ + 1 ELSE 1,
          !.pair = IF more \/ last THEN @ ELSE @ + 1,
          !.pc = IF last THEN "resolved" ELSE "signer"]

ordersUnchanged == <<vaultBalance, config, promises, settleOrder, started, pc,
                     result, dr, pp, signer, fetchedPairPools, call>>

InitOrders ==
    /\ vaultBalance = 0
    /\ config = CHOOSE c \in Configs(1, 1) : TRUE
    /\ promises = <<>>
    /\ settleOrder = <<>>
    /\ started = <<>>
    /\ pc = "idle"
    /\ result = [data |-> NoData, reason |-> Undefined,
                 spanAttributes |-> NoAttributes]
    /\ dr = [pc |-> "idle"]
    /\ pp = [pc |-> "idle"]
    /\ signer = [BALANCE |-> 0, BOUNTY |-> <<>>]
    /\ fetchedPairPools = <<>>
    /\ call = [pc |-> "idle"]
    /\ \E bundledOrders \in BundledOrders, rpcs \in 1..MaxRpcs,
          accounts \in AccountLists, flashbotRpc \in BOOLEAN :
         po = processOrdersStart(bundledOrders, rpcs, accounts, flashbotRpc)

OrdersQuote ==
    /\ po.pc = "quoteOrders"
    /\ \E failed \in 0..po.rpcs,
          quoteResults \in [1..Len(flatIds(po.bundledOrders)) -> QuoteResults] :
         po' = processOrdersQuote(po, failed, quoteResults)
    /\ UNCHANGED ordersUnchanged

OrdersSigner ==
    /\ po.pc = "signer"
    /\ \E constructed \in BOOLEAN : po' = processOrdersSigner(po, constructed)
    /\ UNCHANGED ordersUnchanged

OrdersPair ==
    /\ po.pc = "processPair"
    /\ \E outcome \in ProcessPairOutcomes(po.bundledOrders[po.pair].buyToken,
                                          po.bundledOrders[po.pair].sellToken) :
         po' = processOrdersPair(po, outcome)
    /\ UNCHANGED ordersUnchanged

NextOrders ==
    \/ OrdersQuote
    \/ OrdersSigner
    \/ OrdersPair

SpecOrders == InitOrders /\ [][NextOrders]_vars

-----------------------------------------------------------------------------
(* rotateAccounts called again and again on one list (account.ts) *)

\* the lists of distinct accounts
AccountsLists ==
    UNION {{a \in [1..n -> 1..MaxAccounts] :
                \A j, k \in 1..n : j # k => a[j] # a[k]} : n \in 0..MaxAccounts}

restVars == <<vaultBalance, config, promises, settleOrder, started, pc, result,
                dr, pp, signer, fetchedPairPools, po>>

idle ==
    /\ vaultBalance = 0
    /\ config = CHOOSE c \in Configs(1, 1) : TRUE
    /\ promises = <<>>
    /\ settleOrder = <<>>
    /\ started = <<>>
    /\ pc = "idle"
    /\ result = [data |-> NoData, reason |-> Undefined,
                 spanAttributes |-> NoAttributes]
    /\ dr = [pc |-> "idle"]
    /\ pp = [pc |-> "idle"]
    /\ signer = [BALANCE |-> 0, BOUNTY |-> <<>>]
    /\ fetchedPairPools = <<>>
    /\ po = [pc |-> "idle"]

InitRotate ==
    /\ idle
    /\ \E accounts \in AccountsLists :
         call = [pc |-> "rotateAccounts", accounts |-> accounts,
                 before |-> accounts, rotations |-> 0]

Rotate ==
    /\ call.pc = "rotateAccounts"
    /\ call.rotations < MaxRotations
    /\ call' = [call EXCEPT !.accounts = rotateAccounts(@),
                            !.rotations = @ + 1]
    /\ UNCHANGED restVars

SpecRotate == InitRotate /\ [][Rotate]_vars

-----------------------------------------------------------------------------
(* quoteOrders called on bundled orders (utils.js) *)

InitQuoteOrders ==
    /\ idle
    /\ \E orderDetails \in BundledOrdersUpTo(MaxQuoted), rpcs \in 1..MaxRpcs :
         \E quoteResults \in [1..Len(flatIds(orderDetails)) -> QuoteResults] :
            call = [pc |-> "quoteOrders", given |-> orderDetails, rpcs |-> rpcs,
                    quoteResults |-> quoteResults, orderDetails |-> orderDetails]

\* the endpoints before the one in place failed + 1 throw; quoteOrders throws
\* when all of them did, and returns the bundled orders it was given otherwise
QuoteOrders ==
    /\ call.pc = "quoteOrders"
    /\ \E failed \in 0..call.rpcs :
         call' = IF failed = call.rpcs
                 THEN [call EXCEPT !.pc = "threw"]
                 ELSE [call EXCEPT !.pc = "returned",
                                   !.orderDetails = quoteOrders(@, call.quoteResults)]
    /\ UNCHANGED restVars

SpecQuoteOrders == InitQuoteOrders /\ [][QuoteOrders]_vars

-----------------------------------------------------------------------------
(* estimateProfit (utils.js).  Amounts, ratios and prices are fixed-point   *)
(* numbers in units of 1 / One; the code's One is 10^18, the model's is     *)
(* small so that the amounts stay small, and the divisions by One truncate  *)
(* in the model as they do in the code.                                     *)

\* BigNumber div: the quotient truncated toward zero
div(a, b) == IF a >= 0 THEN a \div b ELSE 0 - ((0 - a) \div b)

\* ethers.constants.MaxUint256: above every amount and ratio of the model
MaxUint256 == (MaxProfitInput + 1) * (MaxProfitRatio + 1) * One * One

\* takeOrders[i].quote
Quotes == [maxOutput : 1..MaxProfitInput, ratio : 0..MaxProfitRatio]

\* opposingOrders: undefined, the pair of another orderbook with its
\* take-orders (one or two, in ascending order of ratio), or a take-order of
\* the same orderbook
NoOpposing == [kind |-> "undefined", takeOrders |-> <<>>]

OpposingOrders ==
    {[kind |-> "orderbook", takeOrders |-> <<a>>] : a \in Quotes}
    \cup
    {o \in {[kind |-> "orderbook", takeOrders |-> <<a, b>>] :
                a \in Quotes, b \in Quotes} :
        o.takeOrders[1].ratio <= o.takeOrders[2].ratio}
    \cup
    {[kind |-> "order", takeOrders |-> <<a>>] : a \in Quotes}

\* the loop over the opposing take-orders from place i on; acc holds
\* opposingMaxInput, opposingInput and opposingOutput
RECURSIVE opposingFill(_, _, _, _)
opposingFill(takeOrders, i, opposingMaxIORatio, acc) ==
    IF i > Len(takeOrders) \/ acc.opposingMaxInput <= 0 THEN acc
    ELSE LET order == takeOrders[i] IN
         IF opposingMaxIORatio >= order.ratio
         THEN LET maxOut == IF acc.opposingMaxInput < order.maxOutput
                            THEN acc.opposingMaxInput ELSE order.maxOutput
              IN opposingFill(takeOrders, i + 1, opposingMaxIORatio,
                    [opposingMaxInput |-> acc.opposingMaxInput - maxOut,
                     opposingInput    |-> acc.opposingInput
                                            + div(maxOut * order.ratio, One),
                     opposingOutput   |-> acc.opposingOutput + maxOut])
         ELSE opposingFill(takeOrders, i + 1, opposingMaxIORatio, acc)

\* the profit against a market price, the order's input added to the market's
\* output
profitOfMarketAddsInput(quote, inputToEthPrice, marketPrice, maxInput) ==
    LET marketAmountOut == div(maxInput * marketPrice, One)
        orderInput == div(maxInput * quote.ratio, One)
        estimatedProfit == marketAmountOut + orderInput
    IN div(estimatedProfit * inputToEthPrice, One)

\* the profit against a market price, the order's input taken from the
\* quoted maxOutput
profitOfMarketFromQuote(quote, inputToEthPrice, marketPrice, maxInput) ==
    LET marketAmountOut == div(maxInput * marketPrice, One)
        orderInput == div(quote.maxOutput * quote.ratio, One)
        estimatedProfit == marketAmountOut - orderInput
    IN div(estimatedProfit * inputToEthPrice, One)

\* if (marketPrice)
profitOfMarket(quote, inputToEthPrice, marketPrice, maxInput) ==
    LET marketAmountOut == div(maxInput * marketPrice, One)
        orderInput == div(maxInput * quote.ratio, One)
        estimatedProfit == marketAmountOut - orderInput
    IN div(estimatedProfit * inputToEthPrice, One)

\* inter-orderbook
profitOfOrderbook(quote, inputToEthPrice, outputToEthPrice, takeOrders, maxInput) ==
    LET orderOutput == maxInput
        orderInput == div(maxInput * quote.ratio, One)
        opposingMaxInput == IF quote.ratio = 0 THEN MaxUint256
                            ELSE div(maxInput * quote.ratio, One)
        opposingMaxIORatio == IF quote.ratio = 0 THEN MaxUint256
                              ELSE div(One * One, quote.ratio)
        filled == opposingFill(takeOrders, 1, opposingMaxIORatio,
                    [opposingMaxInput |-> opposingMaxInput,
                     opposingInput |-> 0, opposingOutput |-> 0])
        outputProfit == div((orderOutput - filled.opposingInput) * outputToEthPrice, One)
        inputProfit == div((filled.opposingOutput - orderInput) * inputToEthPrice, One)
    IN outputProfit + inputProfit

\* intra orderbook
profitOfOrder(quote, inputToEthPrice, outputToEthPrice, opposing) ==
    LET orderMaxInput == div(quote.maxOutput * quote.ratio, One)
        opposingMaxInput == div(opposing.maxOutput * opposing.ratio, One)
        orderOutput == IF opposing.ratio = 0 THEN quote.maxOutput
                       ELSE IF quote.maxOutput <= opposingMaxInput
                       THEN quote.maxOutput ELSE opposingMaxInput
        orderInput == div(orderOutput * quote.ratio, One)
        opposingOutput == IF opposing.ratio = 0 THEN opposing.maxOutput
                          ELSE IF orderMaxInput <= opposing.maxOutput
                          THEN orderMaxInput ELSE opposing.maxOutput
        opposingInput == div(opposingOutput * opposing.ratio, One)
        outputProfit == IF orderOutput - opposingInput < 0 THEN 0
                        ELSE orderOutput - opposingInput
        inputProfit == IF opposingOutput - orderInput < 0 THEN 0
                       ELSE opposingOutput - orderInput
    IN div(outputProfit * outputToEthPrice, One)
         + div(inputProfit * inputToEthPrice, One)

\* estimateProfit; a marketPrice that is defined is truthy, also when zero
estimateProfit(quote, inputToEthPrice, outputToEthPrice, opposingOrders, marketPrice, maxInput) ==
    IF marketPrice.defined
    THEN Some(profitOfMarket(quote, inputToEthPrice, marketPrice.value, maxInput))
    ELSE IF opposingOrders.kind = "orderbook"
    THEN Some(profitOfOrderbook(quote, inputToEthPrice, outputToEthPrice,
                                opposingOrders.takeOrders, maxInput))
    ELSE IF opposingOrders.kind = "order"
    THEN Some(profitOfOrder(quote, inputToEthPrice, outputToEthPrice,
                            opposingOrders.takeOrders[1]))
    ELSE None

\* estimateProfit when called
estimateProfitStart(quote, inputToEthPrice, outputToEthPrice, opposingOrders, marketPrice, maxInput) ==
    [pc               |-> "estimateProfit",
     quote            |-> quote,
     inputToEthPrice  |-> inputToEthPrice,
     outputToEthPrice |-> outputToEthPrice,
     opposingOrders   |-> opposingOrders,
     marketPrice      |-> marketPrice,
     maxInput         |-> maxInput,
     returned         |-> None]

\* the calls with a marketPrice, with the pair of another orderbook and with
\* a take-order of the same orderbook; an argument the case does not read is
\* held at one value
InitProfit ==
    /\ idle
    /\ \E quote \in Quotes, inputToEthPrice \in 0..MaxProfitPrice,
          outputToEthPrice \in 0..MaxProfitPrice, maxInput \in 0..MaxProfitInput :
         \/ /\ quote.maxOutput = 1
            /\ outputToEthPrice = 0
            /\ \E marketPrice \in 0..MaxProfitRatio :
                 call = estimateProfitStart(quote, inputToEthPrice, outputToEthPrice,
                                            NoOpposing, Some(marketPrice), maxInput)
         \/ /\ quote.maxOutput = 1
            /\ \E opposingOrders \in OpposingOrders :
                 /\ opposingOrders.kind = "orderbook"
                 /\ call = estimateProfitStart(quote, inputToEthPrice, outputToEthPrice,
                                               opposingOrders, None, maxInput)
         \/ /\ maxInput = 0
            /\ \E opposingOrders \in OpposingOrders :
                 /\ opposingOrders.kind = "order"
                 /\ call = estimateProfitStart(quote, inputToEthPrice, outputToEthPrice,
                                               opposingOrders, None, maxInput)

EstimateProfit ==
    /\ call.pc = "estimateProfit"
    /\ call' = [call EXCEPT
                  !.pc = "returned",
                  !.returned = estimateProfit(call.quote, call.inputToEthPrice,
                                   call.outputToEthPrice, call.opposingOrders,
                                   call.marketPrice, call.maxInput)]
    /\ UNCHANGED restVars

SpecProfit == InitProfit /\ [][EstimateProfit]_vars

-----------------------------------------------------------------------------
(* Properties of findOpp (Spec: one findOpp, retries = 1) *)

Settled(p) == p.status # "pending"

Succeeded(p) == {k \in DOMAIN p.outcomes : p.outcomes[k].status = "fulfilled"}

Failed(p) == {k \in DOMAIN p.outcomes : p.outcomes[k].status = "rejected"}

\* C1: every maximumInput passed to dryrun by findOpp lies in
\* [0, vaultBalance], whatever the earlier dryrun outcomes were
C1_MaximumInputInRange ==
    \A m \in DOMAIN promises :
        \A k \in DOMAIN promises[m].calls :
            /\ 0 <= promises[m].calls[k]
            /\ promises[m].calls[k] <= vaultBalance

\* an odd balance, three hops called, the amount raised after a success
C1_Witness ==
    \E m \in DOMAIN promises :
        /\ vaultBalance % 2 = 1
        /\ Len(promises[m].calls) >= 3
        /\ promises[m].calls[3] > promises[m].calls[2]
        /\ promises[m].calls[2] < vaultBalance

\* C2: once the last hop (number hops) has run, findOpp settles the way
\* that hop's dryrun did: fulfilled with that dryrun's result, or rejected
C2_LastHopDecides ==
    \A m \in DOMAIN promises :
        LET p == promises[m] IN
        Len(p.outcomes) = config.hops =>
            LET d == p.outcomes[config.hops] IN
            /\ d.status = "fulfilled" =>
                 /\ p.status = "fulfilled"
                 /\ p.value = [data |-> d.data, reason |-> Undefined,
                                spanAttributes |-> d.spanAttributes]
            /\ d.status = "rejected" => p.status = "rejected"

\* the last of at least three hops succeeded after a failure and a success
C2_Witness ==
    \E m \in DOMAIN promises :
        LET p == promises[m] IN
        /\ config.hops >= 3
        /\ Len(p.outcomes) = config.hops
        /\ p.outcomes[config.hops].status = "fulfilled"
        /\ p.outcomes[1].status = "rejected"
        /\ p.status = "fulfilled"

MaxOf(S) == CHOOSE y \in S : \A z \in S : z <= y

\* C3: whenever some hop's dryrun succeeded, findOpp resolves, with the
\* largest amount for which a dryrun succeeded
C3_SuccessIsKept ==
    \A m \in DOMAIN promises :
        LET p == promises[m] IN
        (Settled(p) /\ Succeeded(p) # {}) =>
            /\ p.status = "fulfilled"
            /\ p.value.data.maximumInput =
                 MaxOf({p.outcomes[k].data.maximumInput : k \in Succeeded(p)})

\* C4: if all hops fail with NoRoute, findOpp rejects with NoRoute
C4_AllNoRoute ==
    \A m \in DOMAIN promises :
        LET p == promises[m] IN
        (/\ Len(p.outcomes) = config.hops
         /\ \A k \in DOMAIN p.outcomes : p.outcomes[k].reason = NoRoute) =>
            /\ p.status = "rejected"
            /\ p.value.reason = NoRoute

\* at least two hops, all failed with NoRoute
C4_Witness ==
    \E m \in DOMAIN promises :
        LET p == promises[m] IN
        /\ config.hops >= 2
        /\ Len(p.outcomes) = config.hops
        /\ \A k \in DOMAIN p.outcomes : p.outcomes[k].reason = NoRoute
        /\ p.status = "rejected"

\* C5: a findOpp that ends in rejection with some hop failed for a reason
\* other than NoRoute, and none with NoWalletFund, rejects with NoOpportunity
C5_MixedIsNoOpportunity ==
    \A m \in DOMAIN promises :
        LET p == promises[m] IN
        (/\ p.status = "rejected"
         /\ \E k \in Failed(p) : p.outcomes[k].reason # NoRoute
         /\ \A k \in Failed(p) : p.outcomes[k].reason # NoWalletFund) =>
            p.value.reason = NoOpportunity

\* one NoOpportunity failure followed by NoRoute failures only
C5_Witness ==
    \E m \in DOMAIN promises :
        LET p == promises[m] IN
        /\ p.status = "rejected"
        /\ Len(p.outcomes) >= 3
        /\ p.outcomes[1].reason = NoOpportunity
        /\ \A k \in 2..Len(p.outcomes) : p.outcomes[k].reason = NoRoute

\* C6: a hop failing with NoWalletFund is the last dryrun findOpp calls,
\* and findOpp rejects with NoWalletFund
C6_NoWalletFundAborts ==
    \A m \in DOMAIN promises :
        LET p == promises[m] IN
        \A k \in DOMAIN p.outcomes :
            p.outcomes[k].reason = NoWalletFund =>
                /\ k = Len(p.outcomes)
                /\ Len(p.calls) = k
                /\ p.status = "rejected"
                /\ p.value.reason = NoWalletFund

\* NoWalletFund on a hop that is neither the first nor the last
C6_Witness ==
    \E m \in DOMAIN promises :
        LET p == promises[m] IN
        /\ Len(p.outcomes) = 2
        /\ config.hops >= 3
        /\ p.outcomes[2].reason = NoWalletFund
        /\ p.status = "rejected"

\* findOpp never made more dryrun calls than hops, each call but the first
\* was made after the one before it had settled, and with hops = 1 the calls
\* are the one at vaultBalance
HopsBounded ==
    \A m \in DOMAIN promises :
        LET p == promises[m] IN
        /\ Len(p.calls) <= config.hops
        /\ Len(p.calls) = Len(p.outcomes) + (IF p.status = "pending" THEN 1 ELSE 0)
        /\ config.hops = 1 => p.calls = <<vaultBalance>>

\* C38: findOpp makes at most hops dryrun calls, one after another, exactly
\* one at vaultBalance when hops = 1, and it settles in the end
C38_Terminates ==
    /\ []HopsBounded
    /\ <>(pc \in {"fulfilled", "rejected"})

\* findOpp settled after as many dryrun calls as hops allow, more than one
C38_Witness ==
    /\ pc \in {"fulfilled", "rejected"}
    /\ config.hops = MaxHops
    /\ Len(promises[1].calls) = MaxHops
    /\ Len(promises[1].outcomes) = MaxHops

-----------------------------------------------------------------------------
(* Properties of findOppWithRetries (SpecRetries) *)

Returned == pc \in {"fulfilled", "rejected"}

RejectedWith(reason) ==
    {m \in DOMAIN promises :
        promises[m].status = "rejected" /\ promises[m].value.reason = reason}

Fulfilled == {m \in DOMAIN promises : promises[m].status = "fulfilled"}

\* C7: if any mode's findOpp rejects with NoWalletFund, findOppWithRetries
\* rejects with NoWalletFund, whatever the other modes did
C7_NoWalletFundAlways ==
    (Returned /\ RejectedWith(NoWalletFund) # {}) =>
        /\ pc = "rejected"
        /\ result.reason = NoWalletFund

\* C8: with no mode fulfilled and some mode rejected with NoWalletFund the
\* result is NoWalletFund, also when a lower mode rejected with NoRoute
C8_NoWalletFundBeforeNoRoute ==
    (Returned /\ Fulfilled = {} /\ RejectedWith(NoWalletFund) # {}) =>
        result.reason = NoWalletFund

\* C9: with some mode fulfilled, the result is the fulfilled result with the
\* largest maximumInput, of the lowest mode on a tie; it is determined by
\* the settled results alone, not by the order in which they settled
C9_LargestLowestMode ==
    (Returned /\ Fulfilled # {}) =>
        /\ pc = "fulfilled"
        /\ result.reason = Undefined
        /\ \E w \in Fulfilled :
             /\ result.data = promises[w].value.data
             /\ \A m \in Fulfilled :
                  LET x == promises[m].value.data.maximumInput IN
                  \/ x < result.data.maximumInput
                  \/ x = result.data.maximumInput /\ w <= m

\* a tie between two modes, the higher mode having settled first
C9_Witness ==
    /\ pc = "fulfilled"
    /\ Fulfilled = {1, 2}
    /\ promises[1].value.data.maximumInput = promises[2].value.data.maximumInput
    /\ settleOrder = <<2, 1>>
    /\ result.data.mode = 1

\* C11: if every mode's findOpp rejects with NoOpportunity, the result is a
\* rejection with NoOpportunity whose span attributes are those of mode 1's
\* rejection
C11_AllNoOpportunity ==
    (Returned /\ RejectedWith(NoOpportunity) = DOMAIN promises) =>
        /\ pc = "rejected"
        /\ result.reason = NoOpportunity
        /\ result.data = NoData
        /\ result.spanAttributes = promises[1].value.spanAttributes

\* two modes rejected with NoOpportunity, with different hop attributes
C11_Witness ==
    /\ pc = "rejected"
    /\ DOMAIN promises = {1, 2}
    /\ RejectedWith(NoOpportunity) = {1, 2}
    /\ promises[1].value.spanAttributes # promises[2].value.spanAttributes
    /\ result.spanAttributes.hopsSet
    /\ Len(result.spanAttributes.hops) >= 2

\* C12: with no mode fulfilled, none rejected with NoWalletFund and at
\* least one rejected with NoRoute, the result is a rejection with NoRoute
C12_NoRouteBeforeNoOpportunity ==
    (/\ Returned
     /\ Fulfilled = {}
     /\ RejectedWith(NoWalletFund) = {}
     /\ RejectedWith(NoRoute) # {}) =>
        /\ pc = "rejected"
        /\ result.reason = NoRoute

\* mode 1 rejected with NoOpportunity, mode 2 with NoRoute
C12_Witness ==
    /\ pc = "rejected"
    /\ 1 \in RejectedWith(NoOpportunity)
    /\ 2 \in RejectedWith(NoRoute)
    /\ result.reason = NoRoute

\* C10: findOppWithRetries has invoked findOpp exactly once per mode
\* 1..retries, and returns or throws only when all of them have settled
C10_WaitsForAll ==
    Returned =>
        /\ started = [m \in 1..config.retries |-> m]
        /\ DOMAIN promises = 1..config.retries
        /\ \A m \in DOMAIN promises : Settled(promises[m])

\* the first promise to settle was fulfilled, another settled after it
C10_Witness ==
    /\ Returned
    /\ Len(settleOrder) >= 2
    /\ promises[settleOrder[1]].status = "fulfilled"
    /\ promises[settleOrder[2]].status = "rejected"

-----------------------------------------------------------------------------
(* Properties of dryrun (SpecDryrun) *)

DryrunSettled == dr.pc \in {"fulfilled", "rejected"}

FailedEstimates ==
    {k \in DOMAIN dr.estimates : dr.estimates[k].outcome # "ok"}

\* the call as findOpp sees it settles in one of the ways findOpp is
\* given (dryrunResults)
DryrunAgrees ==
    DryrunSettled =>
        \E d \in dryrunResults(dr.mode, dr.maximumInput, config.gasCoveragePercentage) :
            /\ d.status = dr.pc
            /\ d.reason = dr.result.reason
            /\ d.data.defined = dr.result.data.defined
            /\ d.data.maximumInput = dr.result.data.maximumInput
            /\ d.data.oppBlockNumber = dr.result.data.oppBlockNumber
            /\ d.data.orders = dr.result.data.rawtx.orders
            /\ d.status = "rejected" =>
                 /\ d.spanAttributes.maxInput = dr.result.spanAttributes.maxInput
                 /\ d.spanAttributes.route = dr.result.spanAttributes.route
                 /\ d.spanAttributes.error = dr.result.spanAttributes.error

\* C13: a dryrun result carries a transaction only if gas was estimated for
\* it with success: once (guard 0) with gasCoveragePercentage "0", else
\* twice, the second time for the returned transaction with its guard; a
\* failed estimation gives a rejection without a transaction
C13_TxOnlyAfterEstimation ==
    /\ dr.result.data.defined =>
         /\ dr.pc = "fulfilled"
         /\ dr.result.data.rawtx.built
         /\ FailedEstimates = {}
         /\ dr.estimates[1].tx.minimumSenderOutput = 0
         /\ config.gasCoveragePercentage = "0" =>
              /\ Len(dr.estimates) = 1
              /\ dr.result.data.rawtx.minimumSenderOutput = 0
         /\ config.gasCoveragePercentage # "0" =>
              /\ Len(dr.estimates) = 2
              /\ dr.estimates[2].tx = dr.result.data.rawtx
              /\ dr.result.data.rawtx.minimumSenderOutput =
                   (dr.result.data.gasCostInToken * 105) \div 100
    /\ FailedEstimates # {} =>
         /\ dr.pc = "rejected"
         /\ ~dr.result.data.defined

\* a nonzero coverage, a nonzero guard, both estimations succeeded
C13_Witness ==
    /\ dr.pc = "fulfilled"
    /\ config.gasCoveragePercentage = "100"
    /\ Len(dr.estimates) = 2
    /\ dr.result.data.rawtx.minimumSenderOutput > 0

C15_NoRoute ==
    dr.route = "NoWay" =>
        /\ dr.pc = "rejected"
        /\ dr.result.reason = NoRoute
        /\ dr.result.spanAttributes.route = "no-way"
        /\ ~dr.rawtx.built
        /\ ~dr.result.data.defined
        /\ dr.estimates = <<>>
        /\ dr.blockNumber = 0

C15_Witness ==
    /\ dr.route = "NoWay"
    /\ dr.pc = "rejected"

\* C16 as stated: the gas limit of the returned transaction is
\* ceil(g * 1.03), g the estimated gas
C16_GasLimitCeil ==
    dr.pc = "fulfilled" =>
        LET g == dr.estimates[1].gas
            limit == dr.result.data.rawtx.gasLimit
        IN /\ limit * 100 >= g * 103
           /\ g * 103 > (limit - 1) * 100

\* C16 amended: the gas limit of the returned transaction is
\* floor(g * 103 / 100), g the gas returned by the first estimation
C16_GasLimitFloor ==
    dr.pc = "fulfilled" =>
        LET g == dr.estimates[1].gas
            limit == dr.result.data.rawtx.gasLimit
        IN /\ limit * 100 <= g * 103
           /\ g * 103 < (limit + 1) * 100

\* two estimations with different answers, the limit above the estimate
C16_Witness ==
    /\ dr.pc = "fulfilled"
    /\ Len(dr.estimates) = 2
    /\ dr.estimates[1].gas = 34
    /\ dr.estimates[2].gas = 1
    /\ dr.result.data.rawtx.gasLimit = 35

-----------------------------------------------------------------------------
(* Properties of processPair (SpecPair) *)

\* the stage a collaborator call belongs to
StageOf(name) ==
    CASE name = "doQuoteTargets"            -> 1
      [] name = "getGasPrice"               -> 2
      [] name = "fetchPoolsForToken"        -> 3
      [] name = "getEthPrice"               -> 4
      [] name = "findOpp"                   -> 5
      [] name = "getBlockNumber"            -> 6
      [] name = "sendTransaction"           -> 6
      [] name = "waitForTransactionReceipt" -> 7

CallsOf(name) == {k \in DOMAIN pp.calls : pp.calls[k].name = name}

StagesBefore(k) == {StageOf(pp.calls[j].name) : j \in 1..(k - 1)}

\* C17: the calls processPair makes follow the stage order quote, gas price,
\* pools, prices, opportunity search, submission, receipt; each is made while
\* the result has no halt reason and no terminal report, after every earlier
\* stage was run (the pool fetch may be skipped); a transaction is sent only
\* after findOpp fulfilled, and at most once
C17_StagesInOrder ==
    /\ \A k \in DOMAIN pp.calls :
         /\ k > 1 => StageOf(pp.calls[k - 1].name) <= StageOf(pp.calls[k].name)
         /\ pp.calls[k].reason = Undefined
         /\ pp.calls[k].status \notin {ZeroOutput, ReportNoOpportunity}
         /\ (1..(StageOf(pp.calls[k].name) - 1)) \ {3} \subseteq StagesBefore(k)
    /\ \A name \in {"getGasPrice", "fetchPoolsForToken", "findOpp",
                    "getBlockNumber", "sendTransaction",
                    "waitForTransactionReceipt"} :
         Cardinality(CallsOf(name)) <= 1
    /\ CallsOf("sendTransaction") # {} =>
         /\ pp.opp.fulfilled
         /\ pp.result.report.status = FoundOpportunity
    /\ CallsOf("waitForTransactionReceipt") # {} => pp.txhash.defined

\* every stage ran, the quote on the second endpoint, and the receipt came
C17_Witness ==
    /\ pp.pc = "resolved"
    /\ Len(pp.calls) = 10
    /\ pp.calls[10].name = "waitForTransactionReceipt"
    /\ pp.calls[4].name = "fetchPoolsForToken"

\* C18: a quote with maxOutput = 0 makes processPair resolve with a
\* ZeroOutput report, reason, error and gasCost undefined, and no call other
\* than the quote requests
C18_ZeroOutputResolves ==
    (pp.quote.defined /\ pp.quote.value = 0) =>
        /\ pp.pc = "resolved"
        /\ pp.result.report = reportOf(pp, ZeroOutput)
        /\ pp.result.reason = Undefined
        /\ pp.result.error = NoError
        /\ pp.result.gasCost = None
        /\ CallsOf("doQuoteTargets") = DOMAIN pp.calls
        /\ signer = pp.before

\* the second endpoint answers with a zero quote
C18_Witness ==
    /\ pp.pc = "resolved"
    /\ pp.quote = Some(0)
    /\ Len(pp.calls) = 2
    /\ pp.result.report.status = ZeroOutput

\* C19: when every endpoint throws on the quote request, processPair rejects
\* with FailedToQuote and the error of the last endpoint (its message), and
\* makes no further call
C19_QuoteExhausted ==
    (/\ Len(pp.quotes) = pp.rpcs
     /\ \A k \in DOMAIN pp.quotes : pp.quotes[k].kind = "throw") =>
        /\ pp.pc = "rejected"
        /\ pp.result.reason = FailedToQuote
        /\ pp.result.error.message = pp.quotes[pp.rpcs].error.message
        /\ Len(pp.calls) = pp.rpcs

\* two endpoints throw different errors
C19_Witness ==
    /\ pp.pc = "rejected"
    /\ pp.rpcs = 2
    /\ Len(pp.quotes) = 2
    /\ pp.quotes[1].kind = "throw"
    /\ pp.quotes[2].kind = "throw"
    /\ pp.quotes[1].error # pp.quotes[2].error

\* C20: when findOpp rejects, for any reason, processPair resolves without a
\* halt reason, with a NoOpportunity report, sends no transaction and leaves
\* the signer's BALANCE and BOUNTY as they were
C20_FindOppFailureResolves ==
    (CallsOf("findOpp") # {} /\ ~pp.opp.fulfilled) =>
        /\ pp.pc = "resolved"
        /\ pp.result.reason = Undefined
        /\ pp.result.error = NoError
        /\ pp.result.report = reportOf(pp, ReportNoOpportunity)
        /\ CallsOf("sendTransaction") = {}
        /\ CallsOf("waitForTransactionReceipt") = {}
        /\ signer = pp.before

\* findOpp rejected with NoWalletFund and the signer holds a bounty
C20_Witness ==
    /\ pp.pc = "resolved"
    /\ CallsOf("findOpp") # {}
    /\ pp.opp.reason = NoWalletFund
    /\ signer.BOUNTY # <<>>

\* the price lookups are over and one of them returned nothing or threw
PriceUnavailable ==
    /\ pp.pc # "outputToEthPrice"
    /\ pp.priceUnavailable # "no"

\* C21: when a price lookup returned nothing or threw, processPair goes on to
\* findOpp with both prices "0" if gasCoveragePercentage is "0", and rejects
\* with FailedToGetEthPrice without calling findOpp otherwise
C21_PriceUnavailable ==
    PriceUnavailable =>
        IF config.gasCoveragePercentage = "0"
        THEN /\ pp.inputToEthPrice = Some(0)
             /\ pp.outputToEthPrice = Some(0)
             /\ pp.pc = "findOpp" \/ CallsOf("findOpp") # {}
             /\ pp.result.reason # FailedToGetEthPrice
        ELSE /\ pp.pc = "rejected"
             /\ pp.result.reason = FailedToGetEthPrice
             /\ CallsOf("findOpp") = {}

\* the first lookup gave a price, the second threw, coverage "0", findOpp ran
C21_Witness ==
    /\ config.gasCoveragePercentage = "0"
    /\ Cardinality(CallsOf("getEthPrice")) = 2
    /\ pp.priceUnavailable = "threw"
    /\ CallsOf("findOpp") # {}
    /\ pp.outputToEthPrice = Some(0)

\* the income in a token, in native units (0 without such an income)
IncomeIn(income, price) == IF income.defined THEN price.value * income.value ELSE 0

\* C23: on a receipt with status success processPair resolves with a
\* FoundOpportunity report whose actual gas cost is effectiveGasPrice *
\* gasUsed; income and netProfit are defined exactly when the receipt shows
\* an income in one of the two tokens, and then netProfit = income - cost
C23_SuccessReport ==
    pp.receipt.kind = "success" =>
        LET r == pp.receipt
            report == pp.result.report
            cost == r.effectiveGasPrice * r.gasUsed
            hasIncome == r.inputTokenIncome.defined \/ r.outputTokenIncome.defined
        IN /\ pp.pc = "resolved"
           /\ pp.result.reason = Undefined
           /\ report.status = FoundOpportunity
           /\ report.txUrl = pp.txhash
           /\ report.actualGasCost = Some(cost)
           /\ pp.result.gasCost = Some(cost)
           /\ report.income.defined = hasIncome
           /\ report.netProfit.defined = hasIncome
           /\ hasIncome =>
                /\ report.income.value =
                     IncomeIn(r.inputTokenIncome, pp.inputToEthPrice)
                       + IncomeIn(r.outputTokenIncome, pp.outputToEthPrice)
                /\ report.netProfit.value = report.income.value - cost

\* an income in both tokens at price 1 and a gas cost of 1 * 2
C23_Witness ==
    /\ pp.receipt.kind = "success"
    /\ pp.receipt.effectiveGasPrice = 1
    /\ pp.receipt.gasUsed = 2
    /\ pp.result.report.income = Some(2)
    /\ pp.result.report.netProfit = Some(0)

\* C25: on a receipt with status reverted processPair rejects with
\* TxMineFailed, the report has status FoundOpportunity, the transaction URL
\* and the actual gas cost, BALANCE went down by effectiveGasPrice *
\* gasUsed and BOUNTY is as it was
C25_RevertedReceipt ==
    pp.receipt.kind = "reverted" =>
        LET cost == pp.receipt.effectiveGasPrice * pp.receipt.gasUsed IN
        /\ pp.pc = "rejected"
        /\ pp.result.reason = TxMineFailed
        /\ pp.result.report.status = FoundOpportunity
        /\ pp.txhash.defined
        /\ pp.result.report.txUrl = pp.txhash
        /\ pp.result.report.actualGasCost = Some(cost)
        /\ signer.BALANCE = pp.before.BALANCE - cost
        /\ signer.BOUNTY = pp.before.BOUNTY

\* a reverted receipt costing 2 * 2, with a bounty held before
C25_Witness ==
    /\ pp.receipt.kind = "reverted"
    /\ pp.receipt.effectiveGasPrice = 2
    /\ pp.receipt.gasUsed = 2
    /\ signer.BALANCE = MaxBalance - 4
    /\ signer.BOUNTY # <<>>

SendFailed == CallsOf("sendTransaction") # {} /\ ~pp.txhash.defined

\* C26: when sendTransaction throws, processPair rejects with TxFailed and
\* the thrown error, the report is the FoundOpportunity report without a
\* transaction URL, the raw transaction is recorded in the span attributes,
\* no receipt is awaited and the signer is as it was
C26_SendFailed ==
    SendFailed =>
        /\ pp.pc = "rejected"
        /\ pp.result.reason = TxFailed
        /\ pp.result.error \in Errors
        /\ pp.result.report = reportOf(pp, FoundOpportunity)
        /\ pp.result.report.txUrl = None
        /\ pp.result.rawTx
        /\ pp.result.gasCost = None
        /\ CallsOf("waitForTransactionReceipt") = {}
        /\ pp.receipt = NoReceipt
        /\ signer = pp.before

\* the send failed after a failed block number read
C26_Witness ==
    /\ SendFailed
    /\ pp.result.blockNumberError
    /\ pp.result.reason = TxFailed

\* C27: a rejected processPair has a halt reason and a defined report, and
\* for the halts before the opportunity search the report is the
\* NoOpportunity report of the pair
C27_HaltHasReport ==
    pp.pc = "rejected" =>
        /\ pp.result.reason # Undefined
        /\ pp.result.report.status # Undefined
        /\ pp.result.reason \in {FailedToQuote, FailedToGetGasPrice,
                                 FailedToGetPools, FailedToGetEthPrice} =>
             pp.result.report = reportOf(pp, ReportNoOpportunity)

\* a receipt came back, as the answer or on the thrown error
ReceiptObtained ==
    \/ pp.receipt.kind \in {"success", "reverted"}
    \/ pp.receipt.kind = "throw" /\ pp.receipt.hasReceipt

\* C37: once a receipt is obtained BALANCE is what it was when processPair was
\* called less effectiveGasPrice * gasUsed, taken once; before that, and when
\* the wait threw without a receipt, BALANCE is what it was
C37_BalanceOnce ==
    IF ReceiptObtained
    THEN /\ pp.txhash.defined
         /\ signer.BALANCE = pp.before.BALANCE
                               - pp.receipt.effectiveGasPrice * pp.receipt.gasUsed
    ELSE signer.BALANCE = pp.before.BALANCE

\* the wait threw an error with a receipt costing 1 * 2
C37_Witness ==
    /\ pp.receipt.kind = "throw"
    /\ pp.receipt.hasReceipt
    /\ pp.receipt.effectiveGasPrice = 1
    /\ pp.receipt.gasUsed = 2
    /\ signer.BALANCE = MaxBalance - 2
    /\ pp.pc = "rejected"

\* the wait threw an error without a receipt
C37_NoReceipt ==
    /\ pp.receipt.kind = "throw"
    /\ ~pp.receipt.hasReceipt
    /\ pp.pc = "rejected"

\* C39: the endpoints are asked in list order, none is asked after one
\* yielded a quote, and the quote stage fails only after every endpoint of
\* the list was asked and none yielded a quote
C39_QuoteFallback ==
    /\ Len(pp.quotes) <= pp.rpcs
    /\ \A k \in DOMAIN pp.quotes :
         k < Len(pp.quotes) => pp.quotes[k].kind # "quote"
    /\ pp.result.reason = FailedToQuote =>
         /\ Len(pp.quotes) = pp.rpcs
         /\ \A k \in DOMAIN pp.quotes : pp.quotes[k].kind # "quote"

-----------------------------------------------------------------------------
(* Properties of processPair calls in a row (SpecPairs) *)

Reverse(pair) == <<pair[2], pair[1]>>

NoDuplicates(array) ==
    \A j \in DOMAIN array : \A k \in DOMAIN array : array[j] = array[k] => j = k

FetchedPools == CallsOf("fetchPoolsForToken") # {}

\* C22: pools are fetched only for a pair whose key is not in the cache, and
\* never for two tokens fetched with success by an earlier call, in either
\* direction; once past the pool stage without a fetch the key was cached;
\* after a fetch both direction keys are cached, unless the fetch failed, and
\* then processPair rejected with FailedToGetPools and the cache is as it
\* was; no key is in the cache twice
C22_PoolCache ==
    /\ FetchedPools =>
         /\ ~includes(pp.cacheBefore, pp.pair)
         /\ pp.pair \notin pp.fetchedEarlier
         /\ Reverse(pp.pair) \notin pp.fetchedEarlier
         /\ \/ /\ includes(fetchedPairPools, pp.pair)
               /\ includes(fetchedPairPools, Reverse(pp.pair))
               /\ pp.result.reason # FailedToGetPools
            \/ /\ pp.pc = "rejected"
               /\ pp.result.reason = FailedToGetPools
               /\ fetchedPairPools = pp.cacheBefore
    /\ (~FetchedPools /\ CallsOf("getEthPrice") # {}) =>
         includes(pp.cacheBefore, pp.pair)
    /\ pp.result.reason = FailedToGetPools => FetchedPools
    /\ NoDuplicates(fetchedPairPools)

\* the second call trades the first call's tokens the other way round and
\* reaches the price lookups without a pool fetch
C22_Witness ==
    /\ pp.run = 2
    /\ Reverse(pp.pair) \in pp.fetchedEarlier
    /\ ~FetchedPools
    /\ CallsOf("getEthPrice") # {}
    /\ Len(fetchedPairPools) = 4

\* the receipt of this call has status success and a positive income in token
PositiveIncome(token) ==
    /\ pp.receipt.kind = "success"
    /\ \/ /\ token = pp.buyToken
          /\ pp.receipt.inputTokenIncome.defined
          /\ pp.receipt.inputTokenIncome.value > 0
       \/ /\ token = pp.sellToken
          /\ pp.receipt.outputTokenIncome.defined
          /\ pp.receipt.outputTokenIncome.value > 0

\* C24: over processPair calls with one signer, BOUNTY holds no token twice;
\* a token is added by a call only on a success receipt with a positive
\* income in that token, such a token is in BOUNTY afterwards, and nothing
\* is removed
C24_BountyOncePerToken ==
    /\ NoDuplicates(signer.BOUNTY)
    /\ \A t \in Tokens :
         /\ (includes(signer.BOUNTY, t) /\ ~includes(pp.before.BOUNTY, t)) =>
              PositiveIncome(t)
         /\ PositiveIncome(t) => includes(signer.BOUNTY, t)
    /\ Len(pp.before.BOUNTY) <= Len(signer.BOUNTY)
    /\ SubSeq(signer.BOUNTY, 1, Len(pp.before.BOUNTY)) = pp.before.BOUNTY

\* the second call earns the token the first call already put in BOUNTY
C24_Witness ==
    /\ pp.run = 2
    /\ PositiveIncome(pp.buyToken)
    /\ includes(pp.before.BOUNTY, pp.buyToken)
    /\ pp.before.BOUNTY = signer.BOUNTY

\* C32: a processPair call starts only when the call before it has settled,
\* and BALANCE and BOUNTY are written only by the receipt stage of the call
\* in flight: not by the opportunity search, not by any other stage, and not
\* when a call starts
C32_OneWriter ==
    [][/\ pp'.run # pp.run =>
            /\ pp.pc \in {"resolved", "rejected"}
            /\ pp'.run = pp.run + 1
            /\ signer' = signer
       /\ signer' # signer =>
            /\ pp.pc = "receipt"
            /\ pp'.run = pp.run
            /\ pp'.pc \in {"resolved", "rejected"}]_vars

\* the second call resolved, and both calls took their gas from BALANCE
C32_Witness ==
    /\ pp.run = 2
    /\ pp.pc = "resolved"
    /\ signer.BALANCE < pp.before.BALANCE
    /\ pp.before.BALANCE < MaxBalance

-----------------------------------------------------------------------------
(* Properties of processOrders (SpecOrders) *)

\* the report without the fields processOrders only carries along
carried(report) ==
    [report EXCEPT !.txUrl = None, !.income = None, !.netProfit = None,
                   !.inputTokenIncome = None, !.outputTokenIncome = None]

\* every way processPair settles (SpecPair) is an outcome processOrders is
\* given: reason, report and gasCost agree, the error is carried as it is
PairOutcomeCovered ==
    pp.pc \in {"resolved", "rejected"} =>
        \E o \in ProcessPairOutcomes(pp.buyToken, pp.sellToken) :
            /\ o.settled = pp.pc
            /\ o.reason = pp.result.reason
            /\ o.report = carried(pp.result.report)
            /\ o.gasCost = pp.result.gasCost

\* the take-orders processPair was called for, in the order of the calls
AttemptedIds == [k \in DOMAIN po.attempted |-> po.attempted[k].id]

\* C28: the reports are one per processPair call, in the order of the calls,
\* the calls go through the quoted take-orders in their order, a batch that
\* resolved has a report for every one of them, and a rejection without a
\* reason is reported with reason UnexpectedError
C28_OneReportPerOrder ==
    /\ Len(po.reports) = Len(po.attempted)
    /\ AttemptedIds = SubSeq(flatIds(po.bundledOrders), 1, Len(po.attempted))
    /\ po.pc = "resolved" => AttemptedIds = flatIds(po.bundledOrders)
    /\ \A k \in DOMAIN po.attempted :
         LET o == po.attempted[k].outcome
             r == po.reports[k]
         IN /\ r.report = o.report
            /\ o.settled = "resolved" => r.reason = Undefined
            /\ o.settled = "rejected" =>
                 /\ r.error = o.error
                 /\ r.reason = IF o.reason # Undefined THEN o.reason
                                                       ELSE UnexpectedError

\* a batch of two take-orders resolved after the first call rejected without
\* a reason and the second resolved
C28_Witness ==
    /\ po.pc = "resolved"
    /\ Len(po.attempted) = 2
    /\ po.attempted[1].outcome.settled = "rejected"
    /\ po.attempted[1].outcome.reason = Undefined
    /\ po.reports[1].reason = UnexpectedError
    /\ po.attempted[2].outcome.settled = "resolved"
    /\ po.reports[2].report.status = FoundOpportunity

\* C29: no exception escapes processOrders
C29_NoEscape == po.pc # "rejected"

\* the gasCost of the outcomes so far, in the order of the calls
GasCostsSoFar == [k \in DOMAIN po.attempted |-> po.attempted[k].outcome.gasCost]

RECURSIVE RunningAverage(_)
\* undefined until the first defined cost, that cost then, and afterwards
\* the floor of the half of the sum with every later defined cost
RunningAverage(costs) ==
    IF costs = <<>> THEN None
    ELSE LET before == RunningAverage(SubSeq(costs, 1, Len(costs) - 1))
             c == costs[Len(costs)]
         IN IF ~c.defined THEN before
            ELSE IF ~before.defined THEN c
            ELSE Some(CHOOSE avg \in 0..(before.value + c.value) :
                        /\ 2 * avg <= before.value + c.value
                        /\ before.value + c.value < 2 * avg + 2)

\* C30: avgGasCost is the running average of the gasCost of the outcomes so
\* far, and no rejection carries a gasCost
C30_RunningAverage ==
    /\ po.avgGasCost = RunningAverage(GasCostsSoFar)
    /\ \A k \in DOMAIN po.attempted :
         po.attempted[k].outcome.settled = "rejected" =>
             ~po.attempted[k].outcome.gasCost.defined

\* a gasCost of 1, then one of 2, give the average 1
C30_Witness ==
    /\ Len(po.attempted) = 2
    /\ po.attempted[1].outcome.gasCost = Some(1)
    /\ po.attempted[2].outcome.gasCost = Some(2)
    /\ po.avgGasCost = Some(1)

-----------------------------------------------------------------------------
(* Properties of rotateAccounts (SpecRotate) *)

\* C31: after r calls the account in place k is the one that was r places
\* further on, counted round the list: one call moves the first account to
\* the last place and the others one place forward, as many calls as there
\* are accounts restore the list, and a list of fewer than two accounts stays
\* as it is
C31_Rotation ==
    LET n == Len(call.before) IN
    /\ Len(call.accounts) = n
    /\ n < 2 => call.accounts = call.before
    /\ n >= 2 => \A k \in 1..n :
           call.accounts[k] = call.before[((k - 1 + call.rotations) % n) + 1]

\* three accounts rotated three times are in their first order again, which
\* one call had changed
C31_Witness ==
    /\ Len(call.before) = 3
    /\ call.rotations = 3
    /\ call.accounts = call.before
    /\ rotateAccounts(call.before) # call.before

-----------------------------------------------------------------------------
(* Properties of quoteOrders (SpecQuoteOrders) *)

\* the take-order was quoted with a maxOutput above zero
Quoted(id) ==
    /\ call.quoteResults[id].quoted
    /\ call.quoteResults[id].maxOutput > 0

\* C36: in what quoteOrders returns every take-order has a quote with
\* maxOutput > 0, the take-orders of a pair are in ascending order of ratio,
\* no pair is without take-orders, and the take-orders left are all those of
\* the given orders that have such a quote
C36_QuotedSortedNonEmpty ==
    call.pc = "returned" =>
        /\ \A p \in DOMAIN call.orderDetails :
             LET takeOrders == call.orderDetails[p].takeOrders IN
             /\ Len(takeOrders) > 0
             /\ \A k \in DOMAIN takeOrders : Quoted(takeOrders[k])
             /\ \A j, k \in DOMAIN takeOrders :
                  j < k => call.quoteResults[takeOrders[j]].ratio
                             <= call.quoteResults[takeOrders[k]].ratio
        /\ {id \in DOMAIN call.quoteResults : Quoted(id)}
             = {flatIds(call.orderDetails)[k] :
                  k \in DOMAIN flatIds(call.orderDetails)}
        /\ Len(flatIds(call.orderDetails))
             = Cardinality({id \in DOMAIN call.quoteResults : Quoted(id)})

\* two pairs were given, the first with two take-orders of which the second
\* has the lower ratio, the other with a take-order quoted at zero: the first
\* pair is returned with its take-orders swapped and the other pair is gone
C36_Witness ==
    /\ call.pc = "returned"
    /\ Len(call.given) = 2
    /\ call.given[1].takeOrders = <<1, 2>>
    /\ call.quoteResults[1].ratio > call.quoteResults[2].ratio
    /\ call.quoteResults[3].quoted
    /\ call.quoteResults[3].maxOutput = 0
    /\ Len(call.orderDetails) = 1
    /\ call.orderDetails[1].takeOrders = <<2, 1>>

-----------------------------------------------------------------------------
(* Properties of estimateProfit (SpecProfit) *)

\* estimateProfit was called with a marketPrice and has returned
MarketCall == call.pc = "returned" /\ call.marketPrice.defined

\* C33: with maxInput and inputToEthPrice as they are, a marketPrice that is
\* not lower together with a ratio that is not higher gives a profit that is
\* not lower
C33_Monotone ==
    MarketCall =>
        \A marketPrice \in 0..MaxProfitRatio, ratio \in 0..MaxProfitRatio :
            (marketPrice >= call.marketPrice.value /\ ratio <= call.quote.ratio) =>
                profitOfMarket([call.quote EXCEPT !.ratio = ratio],
                               call.inputToEthPrice, marketPrice, call.maxInput)
                    >= call.returned.value

\* a call whose profit a higher marketPrice raises and a higher ratio lowers
C33_Witness ==
    /\ MarketCall
    /\ call.marketPrice.value < MaxProfitRatio
    /\ 0 < call.quote.ratio
    /\ call.quote.ratio < MaxProfitRatio
    /\ profitOfMarket(call.quote, call.inputToEthPrice, MaxProfitRatio, call.maxInput)
         > call.returned.value
    /\ profitOfMarket([call.quote EXCEPT !.ratio = MaxProfitRatio],
                      call.inputToEthPrice, call.marketPrice.value, call.maxInput)
         < call.returned.value

\* the profit for k times the maxInput of the call
ProfitTimes(k) ==
    profitOfMarket(call.quote, call.inputToEthPrice, call.marketPrice.value,
                   k * call.maxInput)

\* C34 as claimed: the profit for k times maxInput is k times the profit
C34_Linear ==
    MarketCall =>
        \A k \in 1..MaxFactor : ProfitTimes(k) = k * call.returned.value

\* none of the three divisions by One of the call leaves a remainder
ExactDivisions ==
    /\ (call.maxInput * call.marketPrice.value) % One = 0
    /\ (call.maxInput * call.quote.ratio) % One = 0
    /\ ((div(call.maxInput * call.marketPrice.value, One)
           - div(call.maxInput * call.quote.ratio, One))
          * call.inputToEthPrice) % One = 0

\* C34: when the divisions of the call leave no remainder, the profit for k
\* times maxInput is k times the profit
C34_LinearWhenExact ==
    (MarketCall /\ ExactDivisions) =>
        \A k \in 1..MaxFactor : ProfitTimes(k) = k * call.returned.value

\* a call with a profit above zero whose divisions leave no remainder, and
\* one unit of maxInput more would leave one
C34_Witness ==
    /\ MarketCall
    /\ ExactDivisions
    /\ call.returned.value > 0
    /\ call.maxInput > 1
    /\ call.marketPrice.value % One # 0

\* C35: with opposing orders, of another orderbook or of the same one, the
\* returned profit is never below zero
C35_NeverNegative ==
    (call.pc = "returned" /\ call.opposingOrders.kind \in {"orderbook", "order"}) =>
        call.returned.value >= 0

====
